---- MODULE Spec2Model ----
(***************************************************************************)
(* A model of STN Core (mtaka/STN_Core): the reader (units.py), the        *)
(* two-pass evaluator (evaluator.py) over the Environment                  *)
(* (environment.py), the Document / STNRepl merge protocol (document.py,   *)
(* repl.py) and the getter / setter resolution of getter.py and setter.py  *)
(* over values.VEntity.                                                    *)
(*                                                                         *)
(* Python str is a TLA+ string (Len, SubSeq, \o act on characters).        *)
(* A Python dict is a sequence of [k, v] entries in insertion order.       *)
(* `str | None` is <<>> (None) or <<s>>; any other None is the record      *)
(* None.  Objects that are mutated in place and can be shared              *)
(* (model.Entity, Document) live in a heap and are referred to by index.   *)
(***************************************************************************)
EXTENDS Integers, Sequences, FiniteSets, TLC

VARIABLES
    docs,       \* heap of Document objects (document.py), in allocation order
    repl_doc,   \* STNRepl.doc: index into docs
    heap,       \* heap of model.Entity objects, in allocation order
    last,       \* the last operation of the session: its name, the index of its
                \* fragment, its number, and the length of doc.results before it
    ventity,    \* the values.VEntity (or other Value) getter.py / setter.py act on
    ret,        \* what the last getter.py / setter.py call returned
    vop,        \* the last instantiation or getter.py / setter.py call: its name,
                \* its name argument, the indices of its argument node and
                \* TypeDef, and the number of calls so far
    prog,       \* a source text: the indices of its statements in the pool of
                \* statements of the specification
    evaluated,  \* what evaluate returned for prog, with the entities it made
    rnode,      \* a lexer Node handed to units.parse_chunks_to_statements
    rstmts,     \* the Statements parse_chunks_to_statements returned for rnode
    centity,    \* the last Environment.create_entity / create_entity_keyed call:
                \* its type name, its args or kwargs, and the Entity it returned
    atomv,      \* a string, in pieces, with what chunk_utils.atom_to_value and
                \* reader.atom_to_value (after unwrap_literal) return for it
    ndict,      \* an atom list with what normalize_implicit_dict returns for it
    mdef        \* the items of a schema definition node with the member list
                \* reader.parse_member_defs returns for them

vars == <<docs, repl_doc, heap, last, ventity, ret, vop, prog, evaluated, rnode, rstmts,
          centity, atomv, ndict, mdef>>
docVars == <<docs, repl_doc, heap, last>>
valVars == <<ventity, ret, vop>>
evalVars == <<prog, evaluated>>
readerVars == <<rnode, rstmts>>
pureVars == <<centity, atomv, ndict, mdef>>

-----------------------------------------------------------------------------
(* Bounds of the model *)

\* merges and resets one session performs
MaxOps == 4

\* getter.py / setter.py calls applied to one entity
MaxCalls == 3

\* statements of one source text given to evaluate
MaxStmts == 4

\* pieces (a key, an annotation, a group) of one schema definition node
MaxItems == 3

\* atoms of one list given to normalize_implicit_dict
MaxAtoms == 4

\* pieces of one string given to atom_to_value
MaxParts == 4

\* positional arguments, and keyword arguments, of one create_entity call
MaxArgs == 3

\* chunks, and nested-group nodes, of one Node given to the reader
MaxChunks == 4
MaxChildren == 2

-----------------------------------------------------------------------------
(* Python built-ins *)

None == [tag |-> "None"]

CharAt(s, i) == SubSeq(s, i, i)

\* a local binding: `x = <value>` followed by the code F that reads x
With(x, F(_)) == F(x)

startswith(s, p) == Len(s) >= Len(p) /\ SubSeq(s, 1, Len(p)) = p

endswith(s, p) == Len(s) >= Len(p) /\ SubSeq(s, Len(s) - Len(p) + 1, Len(s)) = p

\* dict: key in d
DictHas(d, k) == \E i \in 1..Len(d) : d[i].k = k

DictIdx(d, k) == CHOOSE i \in 1..Len(d) : d[i].k = k

\* dict: d[k]
DictGet(d, k) == d[DictIdx(d, k)].v

\* dict: d[k] = v (an existing key keeps its position, a new key is appended)
DictSet(d, k, v) ==
    IF DictHas(d, k)
    THEN [d EXCEPT ![DictIdx(d, k)] = [k |-> k, v |-> v]]
    ELSE Append(d, [k |-> k, v |-> v])

DictKeys(d) == {d[i].k : i \in 1..Len(d)}

\* list(d.values())
DictValues(d) == [i \in 1..Len(d) |-> d[i].v]

\* list concatenation of a list of lists (all_atoms.extend(chunk) for each chunk)
RECURSIVE Flatten(_)
Flatten(ss) == IF ss = <<>> THEN <<>> ELSE Head(ss) \o Flatten(Tail(ss))

Digit == {"0", "1", "2", "3", "4", "5", "6", "7", "8", "9"}

IsDigits(s) == Len(s) > 0 /\ \A i \in 1..Len(s) : CharAt(s, i) \in Digit

DigitVal(c) ==
    CASE c = "0" -> 0 [] c = "1" -> 1 [] c = "2" -> 2 [] c = "3" -> 3 [] c = "4" -> 4
      [] c = "5" -> 5 [] c = "6" -> 6 [] c = "7" -> 7 [] c = "8" -> 8 [] c = "9" -> 9

RECURSIVE DigitsVal(_)
DigitsVal(s) ==
    IF Len(s) = 0 THEN 0
    ELSE 10 * DigitsVal(SubSeq(s, 1, Len(s) - 1)) + DigitVal(CharAt(s, Len(s)))

RECURSIVE Pow10(_)
Pow10(n) == IF n = 0 THEN 1 ELSE 10 * Pow10(n - 1)

\* A decimal number num / 10^exp in lowest form (no trailing zero in the fraction)
RECURSIVE Decimal(_, _)
Decimal(num, exp) ==
    IF exp > 0 /\ num % 10 = 0 THEN Decimal(num \div 10, exp - 1)
    ELSE [num |-> num, exp |-> exp]

\* re: -?\d+(\.\d+)? anchored at both ends
DigitsDotDigits(t) ==
    \/ IsDigits(t)
    \/ \E p \in 1..Len(t) :
          /\ CharAt(t, p) = "."
          /\ IsDigits(SubSeq(t, 1, p - 1))
          /\ IsDigits(SubSeq(t, p + 1, Len(t)))

NumberBody(s) ==
    Len(s) > 0 /\ DigitsDotDigits(IF CharAt(s, 1) = "-" THEN Tail(s) ELSE s)

\* re.match of ^...$ : `$` also matches just before one trailing newline
StripNewline(s) == IF endswith(s, "\n") THEN SubSeq(s, 1, Len(s) - 1) ELSE s

\* _NUMBER_RE.match(s)
NUMBER_RE(s) == NumberBody(s) \/ NumberBody(StripNewline(s))

\* _DATE_RE.match(s):  ^\d{4}-\d{2}-\d{2}$
DateBody(s) ==
    /\ Len(s) = 10
    /\ IsDigits(SubSeq(s, 1, 4)) /\ CharAt(s, 5) = "-"
    /\ IsDigits(SubSeq(s, 6, 7)) /\ CharAt(s, 8) = "-"
    /\ IsDigits(SubSeq(s, 9, 10))

DATE_RE(s) == DateBody(s) \/ DateBody(StripNewline(s))

\* the position of the '.' in t, or Len(t) + 1
DotPos(t) ==
    IF \E p \in 1..Len(t) : CharAt(t, p) = "."
    THEN CHOOSE p \in 1..Len(t) : CharAt(t, p) = "."
    ELSE Len(t) + 1

\* the value of sign * ip.fp ("" counts as 0) as an exact decimal
DecimalOf(sign, ip, fp) ==
    Decimal(sign * (DigitsVal(ip) * Pow10(Len(fp)) + DigitsVal(fp)), Len(fp))

\* the value of the unsigned decimal literal t
Unsigned(sign, t) ==
    With(DotPos(t),
         LAMBDA p : DecimalOf(sign, SubSeq(t, 1, p - 1), SubSeq(t, p + 1, Len(t))))

Signed(b) ==
    IF CharAt(b, 1) = "-" THEN Unsigned(0 - 1, Tail(b))
    ELSE IF CharAt(b, 1) = "+" THEN Unsigned(1, Tail(b))
    ELSE Unsigned(1, b)

\* float(s) of a string that matches _NUMBER_RE, as an exact decimal
float(s) == Signed(StripNewline(s))

-----------------------------------------------------------------------------
(* model.py: the Value union of the evaluator *)

Empty == [tag |-> "Empty"]

VText(s) == [tag |-> "VText", value |-> s]

VNumber(x) == [tag |-> "VNumber", value |-> x]

VDate(s) == [tag |-> "VDate", value |-> s]

VEnum(s, choices) == [tag |-> "VEnum", value |-> s, choices |-> choices]

VList(items) == [tag |-> "VList", items |-> items]

VDict(entries) == [tag |-> "VDict", entries |-> entries]

VRef(name) == [tag |-> "VRef", name |-> name]

\* model.VEntity wraps a reference to a model.Entity object
VEntity(e) == [tag |-> "VEntity", entity |-> e]

\* model.Entity
Entity(type_name, fields) == [type_name |-> type_name, fields |-> fields, props |-> <<>>]

PrimitiveKind(k) == [kind |-> k]

EnumKind(choices) == [kind |-> "Enum", choices |-> choices]

\* model.TypeDef, with __post_init__: no kinds given means all Text
TypeDef(name, params, kinds) ==
    [name |-> name, params |-> params,
     kinds |-> IF kinds = <<>> THEN [i \in 1..Len(params) |-> PrimitiveKind("Text")]
               ELSE kinds]

-----------------------------------------------------------------------------
(* chunk_utils.py *)

atom_to_value(atom) ==
    IF NUMBER_RE(atom) THEN VNumber(float(atom))
    ELSE IF startswith(atom, "[") /\ endswith(atom, "]")
         THEN LET inner == SubSeq(atom, 2, Len(atom) - 1)
              IN  IF DATE_RE(inner) THEN VDate(inner) ELSE VText(inner)
         ELSE VText(atom)

_collapse(values) ==
    IF Len(values) = 0 THEN VText("")
    ELSE IF Len(values) = 1 THEN values[1]
    ELSE VList(values)

\* the while loop of normalize_implicit_dict from index i on
RECURSIVE normalize_loop(_, _, _, _, _)
normalize_loop(atoms, i, entries, current_key, current_values) ==
    IF i > Len(atoms)
    THEN IF current_key # <<>>
         THEN DictSet(entries, current_key[1], _collapse(current_values))
         ELSE entries
    ELSE LET atom == atoms[i]
             flushed == IF current_key # <<>>
                        THEN DictSet(entries, current_key[1], _collapse(current_values))
                        ELSE entries
             vals == IF current_key # <<>> THEN <<>> ELSE current_values
         IN  IF atom = ":"
             THEN IF i + 1 <= Len(atoms)
                  THEN normalize_loop(atoms, i + 2, flushed, <<atoms[i + 1]>>, vals)
                  ELSE normalize_loop(atoms, i + 1, flushed, current_key, vals)
             ELSE IF startswith(atom, ":") /\ Len(atom) > 1
             THEN normalize_loop(atoms, i + 1, flushed,
                                 <<SubSeq(atom, 2, Len(atom))>>, vals)
             ELSE normalize_loop(atoms, i + 1, entries, current_key,
                                 Append(current_values, atom_to_value(atom)))

normalize_implicit_dict(atoms) == VDict(normalize_loop(atoms, 1, <<>>, <<>>, <<>>))

-----------------------------------------------------------------------------
(* units.py: Leader / Unit / Statement reconstruction from the lexer's chunks. *)
(* A lexer Node is [chunks |-> list of lists of atoms, children |-> list of    *)
(* Nodes].                                                                     *)

Node(chunks, children) == [chunks |-> chunks, children |-> children]

_SIGILS == {"#", "@", ".", "!", ":", "%"}

_SIGIL_MAP(atom) ==
    CASE atom = "#" -> "GlobalRef"
      [] atom = "@" -> "LocalRef"
      [] atom = "." -> "Getter"
      [] atom = "!" -> "Setter"
      [] atom = ":" -> "Key"
      [] atom = "%" -> "TypeCall"

Unit(leader, operand, child) == [leader |-> leader, operand |-> operand, child |-> child]

Statement(units, is_define) == [units |-> units, is_define |-> is_define]

\* the while loop of _parse_atoms_to_statement from index i on (1-based);
\* yields the units and the node cursor
RECURSIVE parse_atoms_loop(_, _, _, _, _, _)
parse_atoms_loop(atoms, children, i, units, child_idx, is_define) ==
    IF i > Len(atoms) THEN [units |-> units, child_idx |-> child_idx]
    ELSE LET atom == atoms[i] IN
      IF atom \in _SIGILS
      THEN LET kind == _SIGIL_MAP(atom) IN
        IF kind = "Setter" /\ i + 1 <= Len(atoms) /\ atoms[i + 1] = "+"
        THEN \* '!+' batch setter
             IF child_idx < Len(children)
             THEN parse_atoms_loop(atoms, children, i + 2,
                      Append(units, Unit("Setter", <<"+">>, children[child_idx + 1])),
                      child_idx + 1, is_define)
             ELSE parse_atoms_loop(atoms, children, i + 2,
                      Append(units, Unit("Setter", <<"+">>, None)),
                      child_idx, is_define)
        ELSE LET has_operand == i + 1 <= Len(atoms) /\ atoms[i + 1] \notin _SIGILS
                 operand == IF has_operand THEN <<atoms[i + 1]>> ELSE <<>>
                 j == IF has_operand THEN i + 2 ELSE i + 1
                 should_consume ==
                     /\ operand # <<>>
                     /\ operand # <<"+">>
                     /\ \/ kind \in {"TypeCall", "Setter"}
                        \/ /\ kind \in {"LocalRef", "GlobalRef"}
                           /\ is_define
                           /\ Len(units) = 0
                           /\ (j > Len(atoms) \/ atoms[j] \notin _SIGILS)
                 consumes == should_consume /\ child_idx < Len(children)
                 unit == Unit(kind, operand,
                              IF consumes THEN children[child_idx + 1] ELSE None)
             IN  parse_atoms_loop(atoms, children, j, Append(units, unit),
                                  IF consumes THEN child_idx + 1 ELSE child_idx,
                                  is_define)
      ELSE \* bare atom: skipped
           parse_atoms_loop(atoms, children, i + 1, units, child_idx, is_define)

\* _parse_atoms_to_statement: yields [stmt, child_idx]
_parse_atoms_to_statement(atoms, children, child_idx) ==
    LET at_start == Len(atoms) > 0 /\ atoms[1] = "@"
        meta == at_start /\ Len(atoms) > 1 /\ atoms[2] \in {"#", "%", "@"}
        local_def_candidate == at_start /\ ~meta
        is_define == at_start
    IN  With(parse_atoms_loop(atoms, children, IF meta THEN 2 ELSE 1, <<>>,
                              child_idx, is_define),
             LAMBDA r :
               [stmt |-> Statement(r.units,
                                   is_define /\ ~(/\ local_def_candidate
                                                  /\ r.units # <<>>
                                                  /\ r.units[1].child = None)),
                child_idx |-> r.child_idx])

\* stmt_start_chunks without the test of the preceding chunk: every `#` starts
stmt_start_chunks_every_hash(chunks) ==
    {ci \in 1..Len(chunks) :
        \/ ci = 1
        \/ /\ chunks[ci] # <<>>
           /\ chunks[ci][1] \in {"@", "#"}}

\* the chunk indexes (1-based) that start a statement
stmt_start_chunks(chunks) ==
    {ci \in 1..Len(chunks) :
        \/ ci = 1
        \/ /\ chunks[ci] # <<>>
           /\ \/ chunks[ci][1] = "@"
              \/ /\ chunks[ci][1] = "#"
                 /\ chunks[ci - 1] # <<>>
                 /\ chunks[ci - 1][Len(chunks[ci - 1])] \notin _SIGILS}

\* parse_groups with the node cursor starting at 0 again for every statement
RECURSIVE parse_groups_restarts_cursor(_, _, _, _)
parse_groups_restarts_cursor(node, starts, ci, child_idx) ==
    IF ci > Len(node.chunks) THEN <<>>
    ELSE LET later == {s \in starts : s > ci}
             end_ci == IF later = {} THEN Len(node.chunks) + 1
                       ELSE CHOOSE s \in later : \A t \in later : s <= t
             atoms == Flatten(SubSeq(node.chunks, ci, end_ci - 1))
         IN  With(_parse_atoms_to_statement(atoms, node.children, 0),
                  LAMBDA r : <<r.stmt>> \o parse_groups_restarts_cursor(node, starts, end_ci, 0))

\* the statements of chunks ci.. , given the node cursor
RECURSIVE parse_groups(_, _, _, _)
parse_groups(node, starts, ci, child_idx) ==
    IF ci > Len(node.chunks) THEN <<>>
    ELSE LET later == {s \in starts : s > ci}
             end_ci == IF later = {} THEN Len(node.chunks) + 1
                       ELSE CHOOSE s \in later : \A t \in later : s <= t
             atoms == Flatten(SubSeq(node.chunks, ci, end_ci - 1))
         IN  With(_parse_atoms_to_statement(atoms, node.children, child_idx),
                  LAMBDA r : <<r.stmt>> \o parse_groups(node, starts, end_ci, r.child_idx))

parse_chunks_to_statements(node) ==
    parse_groups(node, stmt_start_chunks(node.chunks), 1, 0)

-----------------------------------------------------------------------------
(* environment.py: the definition tables.  An Environment is                  *)
(* [typedefs, globals_, locals_], each a dict.                                *)

Environment == [typedefs |-> <<>>, globals_ |-> <<>>, locals_ |-> <<>>]

\* register_typedef with `self.typedefs.setdefault(td.name, td)`
register_typedef_keeps_first(env, td) ==
    IF DictHas(env.typedefs, td.name) THEN env
    ELSE [env EXCEPT !.typedefs = DictSet(@, td.name, td)]

register_typedef(env, td) == [env EXCEPT !.typedefs = DictSet(@, td.name, td)]

resolve_typedef(env, name) ==
    IF DictHas(env.typedefs, name) THEN DictGet(env.typedefs, name) ELSE None

\* set_global with `self.globals_.setdefault(name, value)`
set_global_keeps_first(env, name, value) ==
    IF DictHas(env.globals_, name) THEN env
    ELSE [env EXCEPT !.globals_ = DictSet(@, name, value)]

set_global(env, name, value) == [env EXCEPT !.globals_ = DictSet(@, name, value)]

\* get_global yielding a Ref for an absent name
get_global_absent_is_ref(env, name) ==
    IF DictHas(env.globals_, name) THEN DictGet(env.globals_, name) ELSE VRef(name)

get_global(env, name) ==
    IF DictHas(env.globals_, name) THEN DictGet(env.globals_, name) ELSE Empty

\* set_local writing the name into the public table as well
set_local_also_global(env, name, value) ==
    [env EXCEPT !.locals_ = DictSet(@, name, value),
                !.globals_ = DictSet(@, name, value)]

set_local(env, name, value) == [env EXCEPT !.locals_ = DictSet(@, name, value)]

get_local(env, name) ==
    IF DictHas(env.locals_, name) THEN DictGet(env.locals_, name) ELSE Empty

Whitespace == {" ", "\n", "\t", "\r"}

RECURSIVE lstrip(_)
lstrip(s) == IF Len(s) > 0 /\ CharAt(s, 1) \in Whitespace THEN lstrip(Tail(s)) ELSE s

RECURSIVE rstrip(_)
rstrip(s) ==
    IF Len(s) > 0 /\ CharAt(s, Len(s)) \in Whitespace
    THEN rstrip(SubSeq(s, 1, Len(s) - 1)) ELSE s

\* the decimal literals float() accepts: surrounding whitespace, a sign, and
\* digits with an optional fraction of which one side may be empty
UnsignedBody(t) ==
    \/ IsDigits(t)
    \/ \E p \in 1..Len(t) :
          /\ CharAt(t, p) = "."
          /\ LET ip == SubSeq(t, 1, p - 1)
                 fp == SubSeq(t, p + 1, Len(t))
             IN  /\ ip = "" \/ IsDigits(ip)
                 /\ fp = "" \/ IsDigits(fp)
                 /\ ip # "" \/ fp # ""

SignedBody(b) ==
    UnsignedBody(IF Len(b) > 0 /\ CharAt(b, 1) \in {"-", "+"} THEN Tail(b) ELSE b)

FloatBody(s) == SignedBody(rstrip(lstrip(s)))

\* float(raw) where FloatBody(raw)
float_of(s) == Signed(rstrip(lstrip(s)))

_coerce(raw, kind) ==
    IF kind = PrimitiveKind("Number")
    THEN IF FloatBody(raw) THEN VNumber(float_of(raw)) ELSE VText(raw)
    ELSE IF kind = PrimitiveKind("Date")
    THEN VDate(IF startswith(raw, "[") /\ endswith(raw, "]")
               THEN SubSeq(raw, 2, Len(raw) - 1) ELSE raw)
    ELSE IF kind.kind = "Enum"
    THEN VEnum(IF startswith(raw, "[") /\ endswith(raw, "]")
               THEN SubSeq(raw, 2, Len(raw) - 1) ELSE raw,
               kind.choices)
    ELSE atom_to_value(raw)

\* {f"_{i}": atom_to_value(a) for i, a in enumerate(args)}
synthetic_fields(args) ==
    [i \in 1..Len(args) |-> [k |-> "_" \o ToString(i - 1), v |-> atom_to_value(args[i])]]

kind_at(td, i) == IF i <= Len(td.kinds) THEN td.kinds[i] ELSE PrimitiveKind("Text")

\* the loop of create_entity without the `else: fields[param] = Empty`
RECURSIVE positional_fields_supplied_only(_, _, _, _)
positional_fields_supplied_only(td, args, i, fields) ==
    IF i > Len(td.params) \/ i > Len(args) THEN fields
    ELSE positional_fields_supplied_only(td, args, i + 1,
            DictSet(fields, td.params[i], _coerce(args[i], kind_at(td, i))))

\* the loop of create_entity over td.params[i..]
RECURSIVE positional_fields(_, _, _, _)
positional_fields(td, args, i, fields) ==
    IF i > Len(td.params) THEN fields
    ELSE positional_fields(td, args, i + 1,
            DictSet(fields, td.params[i],
                    IF i <= Len(args) THEN _coerce(args[i], kind_at(td, i)) ELSE Empty))

create_entity(env, type_name, args) ==
    LET td == resolve_typedef(env, type_name)
    IN  IF td = None THEN Entity(type_name, synthetic_fields(args))
        ELSE Entity(type_name, positional_fields(td, args, 1, <<>>))

\* the loop of create_entity_keyed over td.params[i..]
RECURSIVE keyed_fields(_, _, _, _)
keyed_fields(td, kwargs, i, fields) ==
    IF i > Len(td.params) THEN fields
    ELSE keyed_fields(td, kwargs, i + 1,
            DictSet(fields, td.params[i],
                    IF DictHas(kwargs, td.params[i])
                    THEN _coerce(DictGet(kwargs, td.params[i]), kind_at(td, i))
                    ELSE Empty))

create_entity_keyed(env, type_name, kwargs) ==
    LET td == resolve_typedef(env, type_name)
    IN  IF td = None
        THEN Entity(type_name,
                    [i \in 1..Len(kwargs) |->
                        [k |-> kwargs[i].k, v |-> atom_to_value(kwargs[i].v)]])
        ELSE Entity(type_name, keyed_fields(td, kwargs, 1, <<>>))

-----------------------------------------------------------------------------
(* evaluator.py.  The evaluation state st is [env, heap]: the Environment    *)
(* being written and the heap of Entity objects.  An operator that can       *)
(* change it yields [st, v].                                                 *)

\* the inner while loop of _parse_keyed_params_with_kinds: the kind annotation
\* up to the next ':'; yields [i, kind, child_idx]
RECURSIVE kind_loop(_, _, _, _, _)
kind_loop(atoms, children, i, kind, child_idx) ==
    IF i > Len(atoms) \/ atoms[i] = ":"
    THEN [i |-> i, kind |-> kind, child_idx |-> child_idx]
    ELSE IF atoms[i] = "%"
    THEN IF i + 1 <= Len(atoms) /\ atoms[i + 1] \notin {":", "%"}
         THEN IF atoms[i + 1] \in {"s", "S"}
              THEN IF child_idx < Len(children) /\ children[child_idx + 1].chunks # <<>>
                   THEN kind_loop(atoms, children, i + 2,
                                  EnumKind(children[child_idx + 1].chunks[1]),
                                  child_idx + 1)
                   ELSE kind_loop(atoms, children, i + 2, EnumKind(<<>>), child_idx)
              ELSE kind_loop(atoms, children, i + 2, kind, child_idx)
         ELSE kind_loop(atoms, children, i + 1, PrimitiveKind("Number"), child_idx)
    ELSE kind_loop(atoms, children, i + 1, kind, child_idx)

\* the outer while loop of _parse_keyed_params_with_kinds
RECURSIVE params_loop(_, _, _, _, _, _)
params_loop(atoms, children, i, params, kinds, child_idx) ==
    IF i > Len(atoms) THEN [params |-> params, kinds |-> kinds]
    ELSE IF atoms[i] = ":" /\ i + 1 <= Len(atoms)
    THEN With(kind_loop(atoms, children, i + 2, PrimitiveKind("Text"), child_idx),
              LAMBDA r : params_loop(atoms, children, r.i, Append(params, atoms[i + 1]),
                                     Append(kinds, r.kind), r.child_idx))
    ELSE params_loop(atoms, children, i + 1, params, kinds, child_idx)

_parse_keyed_params_with_kinds(atoms, children) ==
    params_loop(atoms, children, 1, <<>>, <<>>, 0)

_register_typedef(env, unit) ==
    IF unit.operand = <<>> THEN env
    ELSE LET name == unit.operand[1]
             child == unit.child
         IN  IF child = None \/ child.chunks = <<>>
             THEN register_typedef(env, TypeDef(name, <<>>, <<>>))
             ELSE LET all_atoms == Flatten(child.chunks)
                  IN  IF \E i \in 1..Len(all_atoms) : all_atoms[i] = ":"
                      THEN With(_parse_keyed_params_with_kinds(all_atoms, child.children),
                                LAMBDA r : register_typedef(env,
                                               TypeDef(name, r.params, r.kinds)))
                      ELSE register_typedef(env, TypeDef(name, all_atoms, <<>>))

_register_definition(env, stmt) ==
    IF stmt.units = <<>> THEN env
    ELSE IF stmt.units[1].leader = "TypeCall" THEN _register_typedef(env, stmt.units[1])
    ELSE env

\* the values collected after a key, up to the next ':'
RECURSIVE keyed_values(_, _)
keyed_values(atoms, i) ==
    IF i > Len(atoms) \/ atoms[i] = ":" THEN <<>>
    ELSE <<atoms[i]>> \o keyed_values(atoms, i + 1)

\* " ".join(values)
RECURSIVE join(_)
join(values) ==
    IF Len(values) = 1 THEN values[1] ELSE values[1] \o " " \o join(Tail(values))

RECURSIVE extract_loop(_, _, _)
extract_loop(atoms, i, result) ==
    IF i > Len(atoms) THEN result
    ELSE IF atoms[i] = ":" /\ i + 1 <= Len(atoms)
    THEN LET values == keyed_values(atoms, i + 2)
         IN  extract_loop(atoms, i + 2 + Len(values),
                          DictSet(result, atoms[i + 1],
                                  IF values # <<>> THEN join(values) ELSE ""))
    ELSE extract_loop(atoms, i + 1, result)

_extract_keyed_args(atoms) == extract_loop(atoms, 1, <<>>)

\* a new Entity object on the heap; yields [st, v] with v the VEntity around it
alloc(st, entity) ==
    [st |-> [st EXCEPT !.heap = Append(@, entity)], v |-> VEntity(Len(st.heap) + 1)]

_eval_type_call(st, unit) ==
    IF unit.operand = <<>> THEN [st |-> st, v |-> Empty]
    ELSE LET type_name == unit.operand[1]
             all_atoms == IF unit.child = None THEN <<>> ELSE Flatten(unit.child.chunks)
         IN  alloc(st,
                   IF \E i \in 1..Len(all_atoms) : all_atoms[i] = ":"
                   THEN create_entity_keyed(st.env, type_name,
                                            _extract_keyed_args(all_atoms))
                   ELSE create_entity(st.env, type_name, all_atoms))

\* _child_to_value handing on the Empty of an unresolved reference
_child_to_value_unresolved_empty(env, child) ==
    IF child = None THEN Empty
    ELSE IF child.chunks = <<>> THEN Empty
    ELSE LET chunks == child.chunks
             first_chunk == chunks[1]
         IN  IF Len(chunks) > 1 /\ \E c \in 1..Len(chunks) :
                                       chunks[c] # <<>> /\ chunks[c][1] = ":"
             THEN normalize_implicit_dict(Flatten(chunks))
             ELSE IF first_chunk = <<>> THEN Empty
             ELSE IF first_chunk[1] = ":" THEN normalize_implicit_dict(Flatten(chunks))
             ELSE IF Len(first_chunk) >= 2 /\ first_chunk[1] \in {"#", "@"}
             THEN IF first_chunk[1] = "#"
                  THEN get_global(env, first_chunk[2])
                  ELSE get_local(env, first_chunk[2])
             ELSE IF Len(first_chunk) = 1 THEN atom_to_value(first_chunk[1])
             ELSE VList([i \in 1..Len(first_chunk) |-> atom_to_value(first_chunk[i])])

_child_to_value(env, child) ==
    IF child = None THEN Empty
    ELSE IF child.chunks = <<>> THEN Empty
    ELSE LET chunks == child.chunks
             first_chunk == chunks[1]
         IN  IF Len(chunks) > 1 /\ \E c \in 1..Len(chunks) :
                                       chunks[c] # <<>> /\ chunks[c][1] = ":"
             THEN normalize_implicit_dict(Flatten(chunks))
             ELSE IF first_chunk = <<>> THEN Empty
             ELSE IF first_chunk[1] = ":" THEN normalize_implicit_dict(Flatten(chunks))
             ELSE IF Len(first_chunk) >= 2 /\ first_chunk[1] \in {"#", "@"}
             THEN LET val == IF first_chunk[1] = "#"
                             THEN get_global(env, first_chunk[2])
                             ELSE get_local(env, first_chunk[2])
                  IN  IF val # Empty THEN val ELSE VRef(first_chunk[2])
             ELSE IF Len(first_chunk) = 1 THEN atom_to_value(first_chunk[1])
             ELSE VList([i \in 1..Len(first_chunk) |-> atom_to_value(first_chunk[i])])

\* _set_field_or_prop on the Entity object: fields, then props (existing or new)
_set_field_or_prop(entity, key, value) ==
    IF DictHas(entity.fields, key)
    THEN [entity EXCEPT !.fields = DictSet(@, key, value)]
    ELSE IF DictHas(entity.props, key)
    THEN [entity EXCEPT !.props = DictSet(@, key, value)]
    ELSE [entity EXCEPT !.props = DictSet(@, key, value)]

\* for key, value in vdict.entries.items(): _set_field_or_prop(entity, key, value)
RECURSIVE set_entries(_, _, _)
set_entries(entity, entries, i) ==
    IF i > Len(entries) THEN entity
    ELSE set_entries(_set_field_or_prop(entity, entries[i].k, entries[i].v),
                     entries, i + 1)

\* the positional while loop of _apply_batch_setter (i is 1-based)
RECURSIVE set_pairs(_, _, _)
set_pairs(entity, atoms, i) ==
    IF i + 1 > Len(atoms) THEN entity
    ELSE set_pairs(_set_field_or_prop(entity, atoms[i], atom_to_value(atoms[i + 1])),
                   atoms, i + 2)

\* _apply_batch_setter on the Entity object; yields the object after the call
_apply_batch_setter(entity, unit) ==
    IF unit.child = None \/ unit.child.chunks = <<>> THEN entity
    ELSE LET chunks == unit.child.chunks
         IN  IF \E c \in 1..Len(chunks) : chunks[c] # <<>> /\ chunks[c][1] = ":"
             THEN set_entries(entity, normalize_implicit_dict(Flatten(chunks)).entries, 1)
             ELSE set_pairs(entity, chunks[1], 1)

\* _apply_setter writing to a copy of the entity and returning the copy
_apply_setter_on_copy(st, base, unit) ==
    IF base.tag # "VEntity" THEN [st |-> st, v |-> base]
    ELSE IF unit.operand = <<"+">>
    THEN alloc(st, _apply_batch_setter(st.heap[base.entity], unit))
    ELSE IF unit.operand = <<>> THEN [st |-> st, v |-> base]
    ELSE alloc(st, _set_field_or_prop(st.heap[base.entity], unit.operand[1],
                                      _child_to_value(st.env, unit.child)))

\* _apply_setter; yields [st, v]
_apply_setter(st, base, unit) ==
    IF base.tag # "VEntity" THEN [st |-> st, v |-> base]
    ELSE IF unit.operand = <<"+">>
    THEN [st |-> [st EXCEPT !.heap[base.entity] = _apply_batch_setter(@, unit)],
          v |-> base]
    ELSE IF unit.operand = <<>> THEN [st |-> st, v |-> base]
    ELSE [st |-> [st EXCEPT !.heap[base.entity] =
                     _set_field_or_prop(@, unit.operand[1],
                                        _child_to_value(st.env, unit.child))],
          v |-> base]

_apply_getter(st, base, field_name) ==
    IF field_name = <<>> THEN Empty
    ELSE IF base.tag = "VEntity"
    THEN LET entity == st.heap[base.entity]
         IN  IF DictHas(entity.fields, field_name[1])
             THEN DictGet(entity.fields, field_name[1])
             ELSE IF DictHas(entity.props, field_name[1])
             THEN DictGet(entity.props, field_name[1])
             ELSE Empty
    ELSE IF base.tag = "VDict"
    THEN IF DictHas(base.entries, field_name[1])
         THEN DictGet(base.entries, field_name[1]) ELSE Empty
    ELSE Empty

_apply_unit(st, base, unit) ==
    IF unit.leader = "Getter" THEN [st |-> st, v |-> _apply_getter(st, base, unit.operand)]
    ELSE IF unit.leader = "Setter" THEN _apply_setter(st, base, unit)
    ELSE IF unit.leader = "TypeCall" THEN _eval_type_call(st, unit)
    ELSE [st |-> st, v |-> base]

\* _eval_single_unit reading a public name with
\* `env.globals_.setdefault(name, Empty)`
_eval_single_unit_stores_absent(st, unit) ==
    IF unit.leader = "GlobalRef"
    THEN [st |-> IF unit.operand = <<>> \/ DictHas(st.env.globals_, unit.operand[1])
                 THEN st
                 ELSE [st EXCEPT !.env = set_global(@, unit.operand[1], Empty)],
          v |-> IF unit.operand = <<>> THEN Empty ELSE get_global(st.env, unit.operand[1])]
    ELSE IF unit.leader = "LocalRef"
    THEN [st |-> st,
          v |-> IF unit.operand = <<>> THEN Empty ELSE get_local(st.env, unit.operand[1])]
    ELSE IF unit.leader = "TypeCall" THEN _eval_type_call(st, unit)
    ELSE IF unit.leader = "Key"
    THEN [st |-> st, v |-> VText(IF unit.operand = <<>> THEN "" ELSE unit.operand[1])]
    ELSE [st |-> st, v |-> Empty]

_eval_single_unit(st, unit) ==
    IF unit.leader = "GlobalRef"
    THEN [st |-> st,
          v |-> IF unit.operand = <<>> THEN Empty ELSE get_global(st.env, unit.operand[1])]
    ELSE IF unit.leader = "LocalRef"
    THEN [st |-> st,
          v |-> IF unit.operand = <<>> THEN Empty ELSE get_local(st.env, unit.operand[1])]
    ELSE IF unit.leader = "TypeCall" THEN _eval_type_call(st, unit)
    ELSE IF unit.leader = "Key"
    THEN [st |-> st, v |-> VText(IF unit.operand = <<>> THEN "" ELSE unit.operand[1])]
    ELSE [st |-> st, v |-> Empty]

\* for unit in units[i..]: base = _apply_unit(env, base, unit)
RECURSIVE apply_units(_, _, _, _)
apply_units(st, base, units, i) ==
    IF i > Len(units) THEN [st |-> st, v |-> base]
    ELSE With(_apply_unit(st, base, units[i]),
              LAMBDA r : apply_units(r.st, r.v, units, i + 1))

\* _eval_unit_chain; start is the 0-based index of the code
_eval_unit_chain(st, units, start) ==
    IF start >= Len(units) THEN [st |-> st, v |-> Empty]
    ELSE With(_eval_single_unit(st, units[start + 1]),
              LAMBDA r : apply_units(r.st, r.v, units, start + 2))

_eval_global_def(st, stmt) ==
    LET first == stmt.units[1] IN
    IF first.operand = <<>> THEN st
    ELSE With(IF Len(stmt.units) > 1 THEN _eval_unit_chain(st, stmt.units, 1)
              ELSE IF first.child # None
              THEN [st |-> st, v |-> _child_to_value(st.env, first.child)]
              ELSE [st |-> st, v |-> Empty],
              LAMBDA r : [r.st EXCEPT !.env = set_global(@, first.operand[1], r.v)])

_eval_local_def(st, stmt) ==
    LET first == stmt.units[1] IN
    IF first.operand = <<>> THEN st
    ELSE With(IF first.child # None
              THEN [st |-> st, v |-> _child_to_value(st.env, first.child)]
              ELSE IF Len(stmt.units) > 1 THEN _eval_unit_chain(st, stmt.units, 1)
              ELSE [st |-> st, v |-> Empty],
              LAMBDA r : [r.st EXCEPT !.env = set_local(@, first.operand[1], r.v)])

_eval_definition(st, stmt) ==
    IF stmt.units = <<>> THEN st
    ELSE IF stmt.units[1].leader = "TypeCall" THEN st
    ELSE IF stmt.units[1].leader = "GlobalRef" THEN _eval_global_def(st, stmt)
    ELSE IF stmt.units[1].leader = "LocalRef" THEN _eval_local_def(st, stmt)
    ELSE st

\* _eval_statement; v is None for a statement without units
_eval_statement(st, stmt) ==
    IF stmt.units = <<>> THEN [st |-> st, v |-> None]
    ELSE _eval_unit_chain(st, stmt.units, 0)

\* Pass 1 of evaluate over stmts[i..]
RECURSIVE pass1(_, _, _)
pass1(env, stmts, i) ==
    IF i > Len(stmts) THEN env
    ELSE pass1(IF stmts[i].is_define THEN _register_definition(env, stmts[i]) ELSE env,
               stmts, i + 1)

\* Pass 2 with a definition statement appending an Empty entry
RECURSIVE pass2_definitions_append(_, _, _, _)
pass2_definitions_append(st, stmts, i, results) ==
    IF i > Len(stmts) THEN [st |-> st, results |-> results]
    ELSE IF stmts[i].is_define
    THEN pass2_definitions_append(_eval_definition(st, stmts[i]), stmts, i + 1,
                                  Append(results, Empty))
    ELSE With(_eval_statement(st, stmts[i]),
              LAMBDA r : pass2_definitions_append(r.st, stmts, i + 1,
                               IF r.v # None THEN Append(results, r.v) ELSE results))

\* Pass 2 of evaluate over stmts[i..]; yields [st, results]
RECURSIVE pass2(_, _, _, _)
pass2(st, stmts, i, results) ==
    IF i > Len(stmts) THEN [st |-> st, results |-> results]
    ELSE IF stmts[i].is_define
    THEN pass2(_eval_definition(st, stmts[i]), stmts, i + 1, results)
    ELSE With(_eval_statement(st, stmts[i]),
              LAMBDA r : pass2(r.st, stmts, i + 1,
                               IF r.v # None THEN Append(results, r.v) ELSE results))

\* one pass: each definition is registered when its statement is reached
RECURSIVE one_pass(_, _, _, _)
one_pass(st, stmts, i, results) ==
    IF i > Len(stmts) THEN [st |-> st, results |-> results]
    ELSE IF stmts[i].is_define
    THEN one_pass(_eval_definition([st EXCEPT !.env = _register_definition(@, stmts[i])],
                                   stmts[i]),
                  stmts, i + 1, results)
    ELSE With(_eval_statement(st, stmts[i]),
              LAMBDA r : one_pass(r.st, stmts, i + 1,
                                  IF r.v # None THEN Append(results, r.v) ELSE results))

\* evaluate without a separate Pass 1
two_passes_in_one(st, root) ==
    With(parse_chunks_to_statements(root),
         LAMBDA stmts : one_pass(st, stmts, 1, <<>>))

\* the two passes of evaluate over an Environment; yields [st, results]
two_passes(st, root) ==
    With(parse_chunks_to_statements(root),
         LAMBDA stmts : pass2([st EXCEPT !.env = pass1(@, stmts, 1)], stmts, 1, <<>>))

\* evaluate(root): the two passes over a new Environment; yields [st, results]
evaluate(root) == two_passes([env |-> Environment, heap |-> <<>>], root)

-----------------------------------------------------------------------------
(* document.py and repl.py *)

\* Document(): a fresh Environment, no results, _last_result None
Document == [environment |-> Environment, results |-> <<>>, last_result |-> None]

\* evaluator._evaluate_into(result, env): the two passes of evaluate, run over
\* the Environment it is given; yields [st, results]
_evaluate_into(st, result) == two_passes(st, result)

\* Document.merge on the Document object doc, with the entity heap hp;
\* yields [doc, heap] after the call
\* merge with `self.results = new_results` in place of extend
merge_replaces_results(doc, hp, result) ==
    With(_evaluate_into([env |-> doc.environment, heap |-> hp], result),
         LAMBDA r :
           [doc |-> [environment |-> r.st.env,
                     results |-> r.results,
                     last_result |-> IF r.results # <<>>
                                     THEN r.results[Len(r.results)] ELSE None],
            heap |-> r.st.heap])

\* merge with `if new_results: self._last_result = new_results[-1]`
merge_keeps_last_result(doc, hp, result) ==
    With(_evaluate_into([env |-> doc.environment, heap |-> hp], result),
         LAMBDA r :
           [doc |-> [environment |-> r.st.env,
                     results |-> doc.results \o r.results,
                     last_result |-> IF r.results # <<>>
                                     THEN r.results[Len(r.results)]
                                     ELSE doc.last_result],
            heap |-> r.st.heap])

merge(doc, hp, result) ==
    With(_evaluate_into([env |-> doc.environment, heap |-> hp], result),
         LAMBDA r :
           [doc |-> [environment |-> r.st.env,
                     results |-> doc.results \o r.results,
                     last_result |-> IF r.results # <<>>
                                     THEN r.results[Len(r.results)] ELSE None],
            heap |-> r.st.heap])

\* source fragments as the lexer hands them over (chunks split at ';', '%', ':')
Group(atoms) == Node(<<atoms>>, <<>>)

\* @%Pt (x y)
FragTypePt == Node(<< <<"@">>, <<"%", "Pt">> >>, << Group(<<"x", "y">>) >>)

\* @%Pt (x y) ; @%Pt (a)
FragTypePtTwice ==
    Node(<< <<"@">>, <<"%", "Pt">>, <<"@">>, <<"%", "Pt">> >>,
         << Group(<<"x", "y">>), Group(<<"a">>) >>)

\* @#P %Pt(1 2)
FragGlobalP == Node(<< <<"@", "#", "P">>, <<"%", "Pt">> >>, << Group(<<"1", "2">>) >>)

\* @#P (7)
FragGlobalP7 == Node(<< <<"@", "#", "P">> >>, << Group(<<"7">>) >>)

\* @v (5) ; @v
FragLocalV == Node(<< <<"@", "v">>, <<"@", "v">> >>, << Group(<<"5">>) >>)

\* #P.x ; #Q
FragGetPx == Node(<< <<"#", "P", ".", "x">>, <<"#", "Q">> >>, <<>>)

\* #P!x(9)
FragSetPx == Node(<< <<"#", "P", "!", "x">> >>, << Group(<<"9">>) >>)

Fragments ==
    <<FragTypePt, FragTypePtTwice, FragGlobalP, FragGlobalP7, FragLocalV,
      FragGetPx, FragSetPx>>

\* STNRepl.eval(text), text parsed to Fragments[f]
Eval(f) ==
    /\ last.n < MaxOps
    /\ With(merge(docs[repl_doc], heap, Fragments[f]),
            LAMBDA r : /\ docs' = [docs EXCEPT ![repl_doc] = r.doc]
                       /\ heap' = r.heap)
    /\ last' = [op |-> "eval", frag |-> f, n |-> last.n + 1,
                nres |-> Len(docs[repl_doc].results)]
    /\ UNCHANGED <<repl_doc, valVars, evalVars, readerVars, pureVars>>

\* STNRepl.reset(): self.doc = Document()
\* reset that empties the Document object in place
Reset_in_place ==
    /\ last.n < MaxOps
    /\ docs' = [docs EXCEPT ![repl_doc] = Document]
    /\ last' = [op |-> "reset", frag |-> 0, n |-> last.n + 1,
                nres |-> Len(docs[repl_doc].results)]
    /\ UNCHANGED <<repl_doc, heap, valVars, evalVars, readerVars, pureVars>>

Reset ==
    /\ last.n < MaxOps
    /\ docs' = Append(docs, Document)
    /\ repl_doc' = Len(docs) + 1
    /\ last' = [op |-> "reset", frag |-> 0, n |-> last.n + 1,
                nres |-> Len(docs[repl_doc].results)]
    /\ UNCHANGED <<heap, valVars, evalVars, readerVars, pureVars>>

\* STNRepl(): self.doc = Document()
Init ==
    /\ docs = <<Document>>
    /\ repl_doc = 1
    /\ heap = <<>>
    /\ last = [op |-> "init", frag |-> 0, n |-> 0, nres |-> 0]
    /\ ventity = Empty
    /\ ret = None
    /\ vop = [op |-> "init", name |-> "", arg |-> 0, td |-> 0, n |-> 0]
    /\ prog = <<>>
    /\ evaluated = evaluate(Node(<<>>, <<>>))
    /\ rnode = Node(<<>>, <<>>)
    /\ rstmts = parse_chunks_to_statements(Node(<<>>, <<>>))
    /\ centity = [op |-> "init", type_name |-> "", args |-> <<>>, kwargs |-> <<>>,
                  entity |-> None]
    /\ atomv = [parts |-> <<>>, value |-> VText(""), reader_value |-> VText("")]
    /\ ndict = [atoms |-> <<>>, dict |-> normalize_implicit_dict(<<>>)]
    /\ mdef = [pieces |-> <<>>, items |-> <<>>, members |-> <<>>, schema |-> <<>>,
               typedef |-> TypeDef("T", <<>>, <<>>)]

Next ==
    \/ \E f \in 1..Len(Fragments) : Eval(f)
    \/ Reset

Spec == Init /\ [][Next]_vars

-----------------------------------------------------------------------------
(* values.py, typedef.py, sobject.py: the entity getter.py and setter.py act on *)

values_VEntity(typedef, type_name, fields, props, reserved) ==
    [tag |-> "VEntity", typedef |-> typedef, type_name |-> type_name,
     fields |-> fields, props |-> props, reserved |-> reserved]

MemberDef(name, kind) == [name |-> name, kind |-> kind, choices |-> <<>>, multi |-> FALSE]

typedef_TypeDef(name, members, reserved) ==
    [name |-> name, members |-> members, reserved |-> reserved]

SObject(entries) == [tag |-> "SObject", entries |-> entries]

\* SEntry.key is <<>> (None) or <<key>>; SEntry.value is SStr or SObject
SEntry(key, value) == [key |-> key, value |-> value]

\* an SValue that is a str
SStr(s) == [tag |-> "str", s |-> s]

-----------------------------------------------------------------------------
(* reader.py: tokens of an argument node to entries *)

\* stn.tokenizer.Token, with the gluing flags the reader reads
Token(type, value, word_head, word_tail) ==
    [tag |-> "Token", type |-> type, value |-> value,
     word_head |-> word_head, word_tail |-> word_tail]

\* stn.nodes.Node as the reader reads it: its items and gluing flags
ItemsNode(items, word_head, word_tail) ==
    [tag |-> "Node", items |-> items, word_head |-> word_head, word_tail |-> word_tail]

\* str.replace("\\]", "]")
RECURSIVE unescape(_)
unescape(s) ==
    IF Len(s) < 2 THEN s
    ELSE IF SubSeq(s, 1, 2) = "\\]" THEN "]" \o unescape(SubSeq(s, 3, Len(s)))
    ELSE SubSeq(s, 1, 1) \o unescape(SubSeq(s, 2, Len(s)))

unwrap_literal(atom) ==
    IF startswith(atom, "[") /\ endswith(atom, "]")
    THEN unescape(SubSeq(atom, 2, Len(atom) - 1))
    ELSE atom

\* reader.atom_to_value: number, then date, then text
reader_atom_to_value(s) ==
    IF NUMBER_RE(s) THEN VNumber(float(s))
    ELSE IF DATE_RE(s) THEN VDate(s)
    ELSE VText(s)

\* items[i] starts a `:key` pattern (i counts from 1)
_is_colon_key(items, i) ==
    IF i + 1 > Len(items) THEN FALSE
    ELSE /\ items[i].tag = "Token"
         /\ items[i].type = "SIGIL"
         /\ items[i].value = ":"
         /\ items[i].word_head
         /\ ~items[i].word_tail
         /\ items[i + 1].tag = "Token"
         /\ items[i + 1].type \in {"ATOM", "NUMBER"}
         /\ ~items[i + 1].word_head

\* isinstance(item, Token) and item.type == TokenType.SIGIL and item.value == value
is_sigil(item, value) ==
    item.tag = "Token" /\ item.type = "SIGIL" /\ item.value = value

\* the (kind, choices, multi) tuple that _parse_type_annotation returns
Annotation(kind, choices, multi) == [kind |-> kind, choices |-> choices, multi |-> multi]

\* [unwrap_literal(c.value) for c in node.items if isinstance(c, Token)]
RECURSIVE enum_choices(_)
enum_choices(items) ==
    IF items = <<>> THEN <<>>
    ELSE IF Head(items).tag = "Token"
    THEN <<unwrap_literal(Head(items).value)>> \o enum_choices(Tail(items))
    ELSE enum_choices(Tail(items))

\* the branch of _parse_type_annotation for `%` glued to an ATOM; idx is the
\* (1-based) position behind the shorthand
shorthand_kind(shorthand, tokens, idx, multi) ==
    IF shorthand \in {"i", "int", "n", "num", "number"} THEN Annotation("number", <<>>, multi)
    ELSE IF shorthand = "f" THEN Annotation("float", <<>>, multi)
    ELSE IF shorthand = "d" THEN Annotation("date", <<>>, multi)
    ELSE IF shorthand \in {"dt", "datetime"} THEN Annotation("datetime", <<>>, multi)
    ELSE IF shorthand = "b" THEN Annotation("bool", <<>>, multi)
    ELSE IF shorthand = "e"
    THEN Annotation("enum",
                    IF idx <= Len(tokens) /\ tokens[idx].tag = "Node" /\ ~tokens[idx].word_head
                    THEN enum_choices(tokens[idx].items) ELSE <<>>,
                    multi)
    ELSE Annotation(shorthand, <<>>, multi)

\* _parse_type_annotation with a leading `*` resetting the kind to text
_parse_type_annotation_star_resets_kind(tokens) ==
    IF tokens = <<>> THEN Annotation("text", <<>>, FALSE)
    ELSE LET multi == is_sigil(tokens[1], "*")
             idx == IF multi THEN 2 ELSE 1
         IN  IF multi THEN Annotation("text", <<>>, multi)
             ELSE IF ~is_sigil(tokens[idx], "%") THEN Annotation("text", <<>>, FALSE)
             ELSE IF idx + 1 > Len(tokens) THEN Annotation("number", <<>>, multi)
             ELSE IF tokens[idx + 1].tag = "Token" /\ ~tokens[idx + 1].word_head
                     /\ tokens[idx + 1].type = "ATOM"
             THEN shorthand_kind(tokens[idx + 1].value, tokens, idx + 2, multi)
             ELSE IF tokens[idx + 1].tag = "Token" /\ ~tokens[idx + 1].word_head
                     /\ tokens[idx + 1].type = "NUMBER"
             THEN Annotation("number", <<>>, multi)
             ELSE IF tokens[idx + 1].tag = "Node" /\ ~tokens[idx + 1].word_head
             THEN Annotation("sobject", <<>>, multi)
             ELSE Annotation("number", <<>>, multi)

_parse_type_annotation(tokens) ==
    IF tokens = <<>> THEN Annotation("text", <<>>, FALSE)
    ELSE LET multi == is_sigil(tokens[1], "*")
             idx == IF multi THEN 2 ELSE 1
         IN  IF idx > Len(tokens) THEN Annotation("text", <<>>, multi)
             ELSE IF ~is_sigil(tokens[idx], "%") THEN Annotation("text", <<>>, FALSE)
             ELSE IF idx + 1 > Len(tokens) THEN Annotation("number", <<>>, multi)
             ELSE IF tokens[idx + 1].tag = "Token" /\ ~tokens[idx + 1].word_head
                     /\ tokens[idx + 1].type = "ATOM"
             THEN shorthand_kind(tokens[idx + 1].value, tokens, idx + 2, multi)
             ELSE IF tokens[idx + 1].tag = "Token" /\ ~tokens[idx + 1].word_head
                     /\ tokens[idx + 1].type = "NUMBER"
             THEN Annotation("number", <<>>, multi)
             ELSE IF tokens[idx + 1].tag = "Node" /\ ~tokens[idx + 1].word_head
             THEN Annotation("sobject", <<>>, multi)
             ELSE Annotation("number", <<>>, multi)

\* the first position from i on that starts a `:key` pattern, or Len(items) + 1
RECURSIVE annotation_end(_, _)
annotation_end(items, i) ==
    IF i > Len(items) \/ _is_colon_key(items, i) THEN i ELSE annotation_end(items, i + 1)

\* the while loop of parse_member_defs from position i on (1-based)
RECURSIVE member_loop(_, _, _)
member_loop(items, i, members) ==
    IF i > Len(items) THEN members
    ELSE IF ~_is_colon_key(items, i) THEN member_loop(items, i + 1, members)
    ELSE With(_parse_type_annotation(SubSeq(items, i + 2, annotation_end(items, i + 2) - 1)),
              LAMBDA a : member_loop(items, annotation_end(items, i + 2),
                                     Append(members,
                                            [name |-> items[i + 1].value, kind |-> a.kind,
                                             choices |-> a.choices, multi |-> a.multi])))

parse_member_defs(items) == member_loop(items, 1, <<>>)

\* the member list of TypeDef(members=parse_member_defs(items)) stored as it is
typedef_members_keeps_reserved(items) == parse_member_defs(items)

\* the member list of the TypeDef built from a definition node: a member
\* named `__` is not appended to it
typedef_members(items) ==
    SelectSeq(parse_member_defs(items), LAMBDA m : m.name # "__")

RECURSIVE parse_chunk_tokens(_)

_node_to_sobject(node) == SObject(parse_chunk_tokens(node.items))

_item_to_svalue(item) ==
    IF item.tag = "Token" THEN SStr(unwrap_literal(item.value))
    ELSE _node_to_sobject(item)

\* where the inner loop of parse_chunk_tokens stops: the next `:key` or the end
RECURSIVE val_end(_, _)
val_end(items, i) ==
    IF i <= Len(items) /\ ~_is_colon_key(items, i) THEN val_end(items, i + 1) ELSE i

\* the entry parse_chunk_tokens appends for a key and its value items
keyed_entry(key, val_items) ==
    IF val_items = <<>> THEN SEntry(<<key>>, SStr(""))
    ELSE IF Len(val_items) = 1 THEN SEntry(<<key>>, _item_to_svalue(val_items[1]))
    ELSE SEntry(<<key>>,
                SObject([k \in 1..Len(val_items) |->
                           SEntry(<<>>, _item_to_svalue(val_items[k]))]))

\* the outer loop of parse_chunk_tokens
RECURSIVE parse_loop(_, _, _)
parse_loop(items, i, entries) ==
    IF i > Len(items) THEN entries
    ELSE IF _is_colon_key(items, i)
    THEN With(val_end(items, i + 2),
              LAMBDA j : parse_loop(items, j,
                           Append(entries,
                                  keyed_entry(items[i + 1].value,
                                              SubSeq(items, i + 2, j - 1)))))
    ELSE parse_loop(items, i + 1,
                    Append(entries, SEntry(<<>>, _item_to_svalue(items[i]))))

parse_chunk_tokens(items) == parse_loop(items, 1, <<>>)

-----------------------------------------------------------------------------
(* getter.py *)

\* int(s) raises no ValueError: optional blanks, optional sign, digits
int_ok(s) ==
    With(rstrip(lstrip(s)),
         LAMBDA t : IF Len(t) > 0 /\ CharAt(t, 1) \in {"+", "-"}
                    THEN IsDigits(SubSeq(t, 2, Len(t)))
                    ELSE IsDigits(t))

int(s) ==
    With(rstrip(lstrip(s)),
         LAMBDA t : IF CharAt(t, 1) = "-" THEN 0 - DigitsVal(SubSeq(t, 2, Len(t)))
                    ELSE IF CharAt(t, 1) = "+" THEN DigitsVal(SubSeq(t, 2, Len(t)))
                    ELSE DigitsVal(t))

\* apply_getter with `value.props` looked up before `value.fields`
apply_getter_props_first(value, accessor) ==
    IF value.tag = "Empty" THEN Empty
    ELSE IF value.tag = "VEntity"
    THEN IF DictHas(value.props, accessor) THEN DictGet(value.props, accessor)
         ELSE IF DictHas(value.fields, accessor) THEN DictGet(value.fields, accessor)
         ELSE Empty
    ELSE Empty

\* apply_getter with the index running over the props behind the fields
apply_getter_index_into_props(value, accessor) ==
    IF value.tag = "Empty" THEN Empty
    ELSE IF value.tag = "VEntity"
    THEN IF DictHas(value.fields, accessor) THEN DictGet(value.fields, accessor)
         ELSE IF DictHas(value.props, accessor) THEN DictGet(value.props, accessor)
         ELSE IF /\ int_ok(accessor)
                 /\ 0 <= int(accessor) - 1
                 /\ int(accessor) - 1 < Len(value.fields) + Len(value.props)
         THEN (DictValues(value.fields) \o DictValues(value.props))[int(accessor)]
         ELSE Empty
    ELSE IF value.tag = "VList"
    THEN IF /\ int_ok(accessor)
            /\ 0 <= int(accessor) - 1
            /\ int(accessor) - 1 < Len(value.items)
         THEN value.items[int(accessor)]
         ELSE Empty
    ELSE Empty

apply_getter(value, accessor) ==
    IF value.tag = "Empty" THEN Empty
    ELSE IF value.tag = "VEntity"
    THEN IF DictHas(value.fields, accessor) THEN DictGet(value.fields, accessor)
         ELSE IF DictHas(value.props, accessor) THEN DictGet(value.props, accessor)
         ELSE IF /\ int_ok(accessor)
                 /\ 0 <= int(accessor) - 1
                 /\ int(accessor) - 1 < Len(value.fields)
         THEN DictValues(value.fields)[int(accessor)]
         ELSE Empty
    ELSE IF value.tag = "VList"
    THEN IF /\ int_ok(accessor)
            /\ 0 <= int(accessor) - 1
            /\ int(accessor) - 1 < Len(value.items)
         THEN value.items[int(accessor)]
         ELSE Empty
    ELSE Empty

-----------------------------------------------------------------------------
(* setter.py: the entity after the call, which is also what the call returns *)

\* apply_setter that files the name `__` under `value.reserved`
apply_setter_writes_reserved(value, field_name, args_node) ==
    IF value.tag = "Empty" THEN Empty
    ELSE IF value.tag # "VEntity" THEN value
    ELSE With(parse_chunk_tokens(args_node.items),
              LAMBDA entries :
                IF entries = <<>> THEN value
                ELSE IF entries[1].value.tag # "str" THEN value
                ELSE IF field_name = "__"
                THEN [value EXCEPT !.reserved =
                        DictSet(@, field_name, reader_atom_to_value(entries[1].value.s))]
                ELSE [value EXCEPT !.props =
                        DictSet(@, field_name, reader_atom_to_value(entries[1].value.s))])

\* apply_setter returning Empty for every value that is no entity
apply_setter_empty_for_non_entity(value, field_name, args_node) ==
    IF value.tag # "VEntity" THEN Empty
    ELSE With(parse_chunk_tokens(args_node.items),
              LAMBDA entries :
                IF entries = <<>> THEN value
                ELSE IF entries[1].value.tag = "str"
                THEN [value EXCEPT !.props =
                        DictSet(@, field_name, reader_atom_to_value(entries[1].value.s))]
                ELSE value)

apply_setter(value, field_name, args_node) ==
    IF value.tag = "Empty" THEN Empty
    ELSE IF value.tag # "VEntity" THEN value
    ELSE With(parse_chunk_tokens(args_node.items),
              LAMBDA entries :
                IF entries = <<>> THEN value
                ELSE IF entries[1].value.tag = "str"
                THEN [value EXCEPT !.props =
                        DictSet(@, field_name, reader_atom_to_value(entries[1].value.s))]
                ELSE value)

\* the loop of apply_batch_setter over the entries
RECURSIVE batch_loop(_, _)
batch_loop(value, entries) ==
    IF entries = <<>> THEN value
    ELSE batch_loop(
           IF Head(entries).key # <<>> /\ Head(entries).value.tag = "str"
           THEN [value EXCEPT !.props =
                   DictSet(@, Head(entries).key[1],
                           reader_atom_to_value(Head(entries).value.s))]
           ELSE value,
           Tail(entries))

apply_batch_setter(value, args_node) ==
    IF value.tag = "Empty" THEN Empty
    ELSE IF value.tag # "VEntity" THEN value
    ELSE batch_loop(value, parse_chunk_tokens(args_node.items))

-----------------------------------------------------------------------------
(* Entity instantiation from a typedef.TypeDef and an argument node *)

\* the member of td named name, or None
member_of(td, name) ==
    IF \E i \in 1..Len(td.members) : td.members[i].name = name
    THEN td.members[CHOOSE i \in 1..Len(td.members) : td.members[i].name = name]
    ELSE None

\* a literal coerced to the kind of its member; no member: atom_to_value
coerce_member(raw, member) ==
    IF member = None THEN reader_atom_to_value(raw)
    ELSE IF member.kind = "number"
    THEN (IF FloatBody(raw) THEN VNumber(float_of(raw)) ELSE VText(raw))
    ELSE IF member.kind = "date" THEN VDate(raw)
    ELSE IF member.kind = "text" THEN VText(raw)
    ELSE reader_atom_to_value(raw)

\* a nested group as a Value: an anonymous entity of its keyed entries
RECURSIVE sobject_fields(_, _)
svalue_to_value(sv, member) ==
    IF sv.tag = "str" THEN coerce_member(sv.s, member)
    ELSE values_VEntity(None, <<>>, sobject_fields(sv.entries, 0), <<>>, <<>>)

sobject_fields(entries, i) ==
    IF entries = <<>> THEN <<>>
    ELSE <<[k |-> IF Head(entries).key # <<>> THEN Head(entries).key[1]
                  ELSE "_" \o ToString(i),
            v |-> svalue_to_value(Head(entries).value, None)]>>
         \o sobject_fields(Tail(entries), i + 1)

\* keyed arguments: each key is coerced by its member; `__` is parsed and
\* discarded
RECURSIVE keyed_members(_, _, _)
keyed_members(td, entries, fields) ==
    IF entries = <<>> THEN fields
    ELSE keyed_members(td, Tail(entries),
           IF Head(entries).key = <<>> \/ Head(entries).key = <<"__">> THEN fields
           ELSE DictSet(fields, Head(entries).key[1],
                        svalue_to_value(Head(entries).value,
                                        member_of(td, Head(entries).key[1]))))

\* positional arguments: member i takes element i, or Empty beyond the count
positional_members(td, entries) ==
    [i \in 1..Len(td.members) |->
        [k |-> td.members[i].name,
         v |-> IF i <= Len(entries)
               THEN svalue_to_value(entries[i].value, td.members[i])
               ELSE Empty]]

\* instantiate with the instance's `:__` written over the inherited entry
instantiate_instance_overrides(td, args_node) ==
    With(parse_chunk_tokens(args_node.items),
         LAMBDA entries :
           values_VEntity(td, <<td.name>>,
             IF \E i \in 1..Len(entries) : entries[i].key # <<>>
             THEN keyed_members(td, entries, <<>>)
             ELSE positional_members(td, entries),
             <<>>,
             IF \E i \in 1..Len(entries) : entries[i].key = <<"__">>
             THEN DictSet(td.reserved, "__",
                    svalue_to_value(
                      entries[CHOOSE i \in 1..Len(entries) : entries[i].key = <<"__">>].value,
                      None))
             ELSE td.reserved))

\* the reserved mapping is copied from the TypeDef; the arguments fill fields
instantiate(td, args_node) ==
    With(parse_chunk_tokens(args_node.items),
         LAMBDA entries :
           values_VEntity(td, <<td.name>>,
             IF \E i \in 1..Len(entries) : entries[i].key # <<>>
             THEN keyed_members(td, entries, <<>>)
             ELSE positional_members(td, entries),
             <<>>, td.reserved))

-----------------------------------------------------------------------------
(* One entity under instantiation, setters and getters *)

\* the tokens of `:name`
Key(name) == <<Token("SIGIL", ":", TRUE, FALSE), Token("ATOM", name, FALSE, TRUE)>>

Atom(value) == <<Token("ATOM", value, TRUE, TRUE)>>

Number(value) == <<Token("NUMBER", value, TRUE, TRUE)>>

\* the node of a parenthesised group standing as a word of its own
Paren(items) == ItemsNode(items, TRUE, TRUE)

\* the node of the arguments glued to a call: `%Person(...)`, `!age(...)`
Args(items) == ItemsNode(items, FALSE, TRUE)

\* (:name Joe :age 20)
ArgJoe20 == Args(Key("name") \o Atom("Joe") \o Key("age") \o Number("20"))

\* (:name Joe :__ (:type Override))
ArgJoeOverride ==
    Args(Key("name") \o Atom("Joe") \o Key("__")
         \o <<Paren(Key("type") \o Atom("Override"))>>)

\* (Joe 20)
ArgPositional == Args(Atom("Joe") \o Number("20"))

\* (36)
Arg36 == Args(Number("36"))

\* ()
ArgNone == Args(<<>>)

\* (:age 36 :city Tokyo)
ArgAgeCity == Args(Key("age") \o Number("36") \o Key("city") \o Atom("Tokyo"))

\* (:__ 5)
ArgReserved == Args(Key("__") \o Number("5"))

\* (age 36 city Tokyo)
ArgFlatAgeCity == Args(Atom("age") \o Number("36") \o Atom("city") \o Atom("Tokyo"))

ArgNodes == <<ArgJoe20, ArgJoeOverride, ArgPositional,
              Arg36, ArgNone, ArgAgeCity, ArgReserved, ArgFlatAgeCity>>

\* the argument nodes of instantiations, and those of setters
InstArgs == {i \in 1..Len(ArgNodes) :
               ArgNodes[i] \in {ArgJoe20, ArgJoeOverride, ArgPositional}}
SetArgs == {i \in 1..Len(ArgNodes) :
              ArgNodes[i] \in {Arg36, ArgNone, ArgAgeCity, ArgReserved, ArgFlatAgeCity}}

\* @%Person (:__ (:type Person) :name :age %)
TypePerson ==
    typedef_TypeDef("Person",
                    <<MemberDef("name", "text"), MemberDef("age", "number")>>,
                    <<[k |-> "__",
                       v |-> values_VEntity(None, <<>>,
                                            <<[k |-> "type", v |-> VText("Person")]>>,
                                            <<>>, <<>>)]>>)

\* @%Pt (:x % :y %)
TypePt ==
    typedef_TypeDef("Pt", <<MemberDef("x", "number"), MemberDef("y", "number")>>, <<>>)

TypeDefs == <<TypePerson, TypePt>>

SetterNames == {"age", "city", "__"}

Accessors == {"age", "city", "__", "1", "7", "0", "2", "3", "-1"}

\* values that are no entity: a Text, a Number, a List
ValuePool == <<VText("Joe"), VNumber(float("7")), VList(<<VText("a"), VText("b")>>)>>

\* the value of the session is a Text, a Number or a List
Literal(v) ==
    /\ vop.op = "init"
    /\ ventity' = ValuePool[v]
    /\ vop' = [op |-> "literal", name |-> "", arg |-> v, td |-> 0, n |-> vop.n]
    /\ UNCHANGED <<ret, docVars, evalVars, readerVars, pureVars>>

\* %Type(args): the entity of the session is instantiated
Instantiate(t, a) ==
    /\ vop.op = "init"
    /\ ventity' = instantiate(TypeDefs[t], ArgNodes[a])
    /\ vop' = [op |-> "instantiate", name |-> "", arg |-> a, td |-> t, n |-> vop.n]
    /\ UNCHANGED <<ret, docVars, evalVars, readerVars, pureVars>>

\* value!name(args)
Setter(name, a) ==
    /\ vop.n < MaxCalls
    /\ With(apply_setter(ventity, name, ArgNodes[a]),
            LAMBDA r : ventity' = r /\ ret' = r)
    /\ vop' = [op |-> "setter", name |-> name, arg |-> a, td |-> vop.td, n |-> vop.n + 1]
    /\ UNCHANGED <<docVars, evalVars, readerVars, pureVars>>

\* value!+(args)
BatchSetter(a) ==
    /\ vop.n < MaxCalls
    /\ With(apply_batch_setter(ventity, ArgNodes[a]),
            LAMBDA r : ventity' = r /\ ret' = r)
    /\ vop' = [op |-> "batch", name |-> "", arg |-> a, td |-> vop.td, n |-> vop.n + 1]
    /\ UNCHANGED <<docVars, evalVars, readerVars, pureVars>>

\* value.accessor
Getter(accessor) ==
    /\ vop.n < MaxCalls
    /\ ret' = apply_getter(ventity, accessor)
    /\ vop' = [op |-> "getter", name |-> accessor, arg |-> 0, td |-> vop.td, n |-> vop.n + 1]
    /\ UNCHANGED <<ventity, docVars, evalVars, readerVars, pureVars>>

NextValues ==
    \/ \E t \in 1..Len(TypeDefs), a \in InstArgs : Instantiate(t, a)
    \/ \E v \in 1..Len(ValuePool) : Literal(v)
    \/ \E name \in SetterNames, a \in SetArgs : Setter(name, a)
    \/ \E a \in SetArgs : BatchSetter(a)
    \/ \E accessor \in Accessors : Getter(accessor)

SpecValues == Init /\ [][NextValues]_vars

-----------------------------------------------------------------------------
(* The reader on one Node: chunks and nested-group nodes arrive one by one *)

\* the chunks the lexer can hand over: `@`, `%Pt`, `#P!x`, `#Q`, an empty
\* chunk (`;;`), `:k`, `@#P`
ChunkPool == << <<"@">>, <<"%", "Pt">>, <<"#", "P", "!", "x">>, <<"#", "Q">>,
                <<>>, <<":", "k">>, <<"@", "#", "P">> >>

\* the k-th nested-group node of the source: (k)
ChildNode(k) == Group(<<ToString(k)>>)

\* the lexer appends chunk c to the Node; the Node is parsed
AddChunk(c) ==
    /\ Len(rnode.chunks) < MaxChunks
    /\ rnode' = Node(Append(rnode.chunks, ChunkPool[c]), rnode.children)
    /\ rstmts' = parse_chunks_to_statements(rnode')
    /\ UNCHANGED <<docVars, valVars, evalVars, pureVars>>

\* the lexer appends one more nested-group node; the Node is parsed
AddChild ==
    /\ Len(rnode.children) < MaxChildren
    /\ rnode' = Node(rnode.chunks, Append(rnode.children, ChildNode(Len(rnode.children) + 1)))
    /\ rstmts' = parse_chunks_to_statements(rnode')
    /\ UNCHANGED <<docVars, valVars, evalVars, pureVars>>

NextReader ==
    \/ \E c \in 1..Len(ChunkPool) : AddChunk(c)
    \/ AddChild

SpecReader == Init /\ [][NextReader]_vars

-----------------------------------------------------------------------------
(* evaluate over whole sources: evaluator.py *)

\* source statements as the lexer hands them over: the chunks of the statement
\* and its nested-group nodes
\* @%Pt (x y)
StmtTypePt == Node(<< <<"@">>, <<"%", "Pt">> >>, << Group(<<"x", "y">>) >>)

\* @#P %Pt(1 2)
StmtGlobalP == Node(<< <<"@", "#", "P">>, <<"%", "Pt">> >>, << Group(<<"1", "2">>) >>)

\* #P.x
StmtGetPx == Node(<< <<"#", "P", ".", "x">> >>, <<>>)

\* #P!x(9)
StmtSetPx == Node(<< <<"#", "P", "!", "x">> >>, << Group(<<"9">>) >>)

\* #Q
StmtGetQ == Node(<< <<"#", "Q">> >>, <<>>)

\* @w.x
StmtGetWx == Node(<< <<"@", "w", ".", "x">> >>, <<>>)

\* @r (#A)
StmtLocalR == Node(<< <<"@", "r">> >>, << Group(<<"#", "A">>) >>)

\* @#A (7)
StmtGlobalA == Node(<< <<"@", "#", "A">> >>, << Group(<<"7">>) >>)

\* #P!t(#A)
StmtSetPt == Node(<< <<"#", "P", "!", "t">> >>, << Group(<<"#", "A">>) >>)

StmtPool ==
    <<StmtTypePt, StmtGlobalP, StmtGetPx, StmtSetPx, StmtGetQ, StmtGetWx,
      StmtLocalR, StmtGlobalA, StmtSetPt>>

\* the Node of a source made of the statements p (indexes into StmtPool),
\* separated by ';'
Source(p) ==
    Node(Flatten([k \in 1..Len(p) |-> StmtPool[p[k]].chunks]),
         Flatten([k \in 1..Len(p) |-> StmtPool[p[k]].children]))

\* evaluate(parse(text)), text being the source so far and one more statement
Evaluate(s) ==
    /\ Len(prog) < MaxStmts
    /\ prog' = Append(prog, s)
    /\ evaluated' = evaluate(Source(prog'))
    /\ UNCHANGED <<docVars, valVars, readerVars, pureVars>>

NextEvaluate == \E s \in 1..Len(StmtPool) : Evaluate(s)

SpecEvaluate == Init /\ [][NextEvaluate]_vars

-----------------------------------------------------------------------------
(* evaluate over sources of variable definitions and references *)

\* @%Pt (x y)
ScTypePt == Node(<< <<"@">>, <<"%", "Pt">> >>, << Group(<<"x", "y">>) >>)

\* @v %Pt(1 2)
ScLocalEntity == Node(<< <<"@", "v">>, <<"%", "Pt">> >>, << Group(<<"1", "2">>) >>)

\* @v
ScBareV == Node(<< <<"@", "v">> >>, <<>>)

\* @v (6)
ScLocalV == Node(<< <<"@", "v">> >>, << Group(<<"6">>) >>)

\* @#v (5)
ScGlobalV == Node(<< <<"@", "#", "v">> >>, << Group(<<"5">>) >>)

\* #v
ScGetGlobalV == Node(<< <<"#", "v">> >>, <<>>)

\* @#g %Pt(1 2)
ScGlobalG == Node(<< <<"@", "#", "g">>, <<"%", "Pt">> >>, << Group(<<"1", "2">>) >>)

\* #g.q
ScGetGq == Node(<< <<"#", "g", ".", "q">> >>, <<>>)

ScopePool ==
    <<ScTypePt, ScLocalEntity, ScBareV, ScLocalV, ScGlobalV, ScGetGlobalV,
      ScGlobalG, ScGetGq>>

\* the Node of a source made of the statements p (indexes into ScopePool)
ScopeSource(p) ==
    Node(Flatten([k \in 1..Len(p) |-> ScopePool[p[k]].chunks]),
         Flatten([k \in 1..Len(p) |-> ScopePool[p[k]].children]))

\* evaluate(parse(text)), text being the source so far and one more statement
EvaluateScoped(s) ==
    /\ Len(prog) < MaxStmts
    /\ prog' = Append(prog, s)
    /\ evaluated' = evaluate(ScopeSource(prog'))
    /\ UNCHANGED <<docVars, valVars, readerVars, pureVars>>

NextScopes == \E s \in 1..Len(ScopePool) : EvaluateScoped(s)

SpecScopes == Init /\ [][NextScopes]_vars

-----------------------------------------------------------------------------
(* Environment.create_entity and create_entity_keyed on their own *)

\* an Environment whose typedef table holds Pt with a Number and a Date member
EnvPt ==
    register_typedef(Environment,
                     TypeDef("Pt", <<"x", "y">>,
                             <<PrimitiveKind("Number"), PrimitiveKind("Date")>>))

\* type names: one registered, one not
TypeNames == {"Pt", "Unknown"}

\* raw argument strings
RawArgs == {"10", "a", "[5]"}

\* keyword names: two members of Pt and one that is no member
KwNames == {"x", "y", "q"}

\* env.create_entity(type_name, args), args one longer than in the last call
\* (a is <<>> for a call with the same args)
CreateEntity(type_name, a) ==
    /\ centity.op \in {"init", "positional"}
    /\ Len(centity.args \o a) <= MaxArgs
    /\ centity' = [op |-> "positional", type_name |-> type_name,
                   args |-> centity.args \o a, kwargs |-> <<>>,
                   entity |-> create_entity(EnvPt, type_name, centity.args \o a)]
    /\ UNCHANGED <<docVars, valVars, evalVars, readerVars, atomv, ndict, mdef>>

\* env.create_entity_keyed(type_name, kwargs), kwargs with one more entry set
CreateEntityKeyed(type_name, k, v) ==
    /\ centity.op \in {"init", "keyed"}
    /\ Len(DictSet(centity.kwargs, k, v)) <= MaxArgs
    /\ centity' = [op |-> "keyed", type_name |-> type_name,
                   args |-> <<>>, kwargs |-> DictSet(centity.kwargs, k, v),
                   entity |-> create_entity_keyed(EnvPt, type_name,
                                                  DictSet(centity.kwargs, k, v))]
    /\ UNCHANGED <<docVars, valVars, evalVars, readerVars, atomv, ndict, mdef>>

NextEntities ==
    \/ \E t \in TypeNames, a \in {<<>>} \cup {<<r>> : r \in RawArgs} : CreateEntity(t, a)
    \/ \E t \in TypeNames, k \in KwNames, v \in RawArgs : CreateEntityKeyed(t, k, v)

SpecEntities == Init /\ [][NextEntities]_vars

-----------------------------------------------------------------------------
(* atom_to_value on its own: chunk_utils.py, and reader.py behind            *)
(* unwrap_literal as _item_to_svalue and setter.py combine them              *)

\* pieces of atoms: a sign, a digit, a point, brackets, an escaped closing
\* bracket, a letter, a date
AtomParts == <<"-", "4", ".", "[", "]", "\\]", "a", "2024-01-15">>

\* "".join(parts)
RECURSIVE Concat(_)
Concat(parts) == IF parts = <<>> THEN "" ELSE Head(parts) \o Concat(Tail(parts))

\* atom_to_value(s) of chunk_utils.py and atom_to_value(unwrap_literal(s)) of
\* reader.py, s being the string so far and one more piece
AtomToValue(c) ==
    /\ Len(atomv.parts) < MaxParts
    /\ atomv' = [parts |-> Append(atomv.parts, AtomParts[c]),
                 value |-> atom_to_value(Concat(Append(atomv.parts, AtomParts[c]))),
                 reader_value |->
                   reader_atom_to_value(
                     unwrap_literal(Concat(Append(atomv.parts, AtomParts[c]))))]
    /\ UNCHANGED <<docVars, valVars, evalVars, readerVars, centity, ndict, mdef>>

NextAtoms == \E c \in 1..Len(AtomParts) : AtomToValue(c)

SpecAtoms == Init /\ [][NextAtoms]_vars

-----------------------------------------------------------------------------
(* parse_member_defs and schema registration on their own *)

\* `%` as a word of its own
Percent == <<Token("SIGIL", "%", TRUE, TRUE)>>

\* `%d`, `%Task`: `%` glued to a shorthand
Glued(shorthand) ==
    <<Token("SIGIL", "%", TRUE, FALSE), Token("ATOM", shorthand, FALSE, TRUE)>>

\* `*%d`, `*%Task`: `*` glued to `%` glued to a shorthand
Starred(shorthand) ==
    <<Token("SIGIL", "*", TRUE, FALSE), Token("SIGIL", "%", FALSE, FALSE),
      Token("ATOM", shorthand, FALSE, TRUE)>>

Shorthands ==
    <<"i", "int", "n", "num", "number", "f", "d", "dt", "datetime", "b", "e", "Task">>

\* the pieces a schema definition node is written from: `:name`, `:age`,
\* `:__`, `%`, `x`, `(:type Person)`, `%e(F M)`, `*%d`, `*%Task`, and `%`
\* glued to each shorthand
MemberPieces ==
    <<Key("name"), Key("age"), Key("__"), Percent, Atom("x"),
      <<Paren(Key("type") \o Atom("Person"))>>,
      Glued("e") \o <<Args(Atom("F") \o Atom("M"))>>,
      Starred("d"), Starred("Task")>>
    \o [k \in 1..Len(Shorthands) |-> Glued(Shorthands[k])]

\* the items of the node written from the pieces p (indexes into MemberPieces)
ItemsOf(p) == Flatten([k \in 1..Len(p) |-> MemberPieces[p[k]]])

\* the same node as units.py sees it: the atoms of its tokens in one chunk,
\* its groups as nested-group nodes
RECURSIVE AsChunkNode(_)
AsChunkNode(items) ==
    Node(<<SelectSeq([k \in 1..Len(items) |->
                        IF items[k].tag = "Token" THEN items[k].value ELSE ""],
                     LAMBDA a : a # "")>>,
         [k \in 1..Len(SelectSeq(items, LAMBDA it : it.tag = "Node")) |->
            AsChunkNode(SelectSeq(items, LAMBDA it : it.tag = "Node")[k].items)])

\* the TypeDef that `@%T (...)` leaves in the typedef table of evaluator.py
RegisteredTypeDef(items) ==
    resolve_typedef(_register_typedef(Environment,
                                      Unit("TypeCall", <<"T">>, AsChunkNode(items))),
                    "T")

\* the definition node written from the pieces p, its member list as
\* parse_member_defs yields it and as the TypeDef keeps it, and the TypeDef
\* of evaluator.py
MemberDefs(p) ==
    [pieces |-> p,
     items |-> ItemsOf(p),
     members |-> parse_member_defs(ItemsOf(p)),
     schema |-> typedef_members(ItemsOf(p)),
     typedef |-> RegisteredTypeDef(ItemsOf(p))]

\* a schema definition node, written so far, gets one more piece
AddPiece(c) ==
    /\ Len(mdef.pieces) < MaxItems
    /\ mdef' = MemberDefs(Append(mdef.pieces, c))
    /\ UNCHANGED <<docVars, valVars, evalVars, readerVars, centity, atomv, ndict>>

NextMembers == \E c \in 1..Len(MemberPieces) : AddPiece(c)

SpecMembers == Init /\ [][NextMembers]_vars

-----------------------------------------------------------------------------
(* normalize_implicit_dict on its own *)

\* atoms: a pre-joined key, the key sigil, a name, two numbers
DictAtoms == <<":x", ":", "y", "1", "2">>

\* normalize_implicit_dict(atoms), atoms being the list so far and one more
Normalize(a) ==
    /\ Len(ndict.atoms) < MaxAtoms
    /\ ndict' = [atoms |-> Append(ndict.atoms, DictAtoms[a]),
                 dict |-> normalize_implicit_dict(Append(ndict.atoms, DictAtoms[a]))]
    /\ UNCHANGED <<docVars, valVars, evalVars, readerVars, centity, atomv, mdef>>

NextDict == \E a \in 1..Len(DictAtoms) : Normalize(a)

SpecDict == Init /\ [][NextDict]_vars

-----------------------------------------------------------------------------
(* Claims about getter.py, setter.py and instantiation *)

\* the entity is an Entity with field and prop tables
IsEntity == ventity.tag = "VEntity"

\* a step that is a single-setter call
SetterStep == vop'.n = vop.n + 1 /\ vop'.op = "setter"

\* a step that is a single-setter or a batch-setter call
AnySetterStep == vop'.n = vop.n + 1 /\ vop'.op \in {"setter", "batch"}

\* C1: a getter whose accessor names both a field and a prop of the entity
\* returns the field's value, never the prop's.
C1_GetterPrefersField ==
    (/\ vop.op = "getter" /\ IsEntity
     /\ DictHas(ventity.fields, vop.name)
     /\ DictHas(ventity.props, vop.name))
    => /\ ret = DictGet(ventity.fields, vop.name)
       /\ DictGet(ventity.props, vop.name) # DictGet(ventity.fields, vop.name)
            => ret # DictGet(ventity.props, vop.name)

\* a getter was applied to an entity holding age as a field and, with another
\* value, as a prop
C1_Witness ==
    /\ vop.op = "getter" /\ vop.name = "age" /\ IsEntity
    /\ DictHas(ventity.fields, "age") /\ DictHas(ventity.props, "age")
    /\ DictGet(ventity.fields, "age") # DictGet(ventity.props, "age")
    /\ ret = DictGet(ventity.fields, "age")

\* the entries of the argument node of the call
EntriesOf(a) == parse_chunk_tokens(ArgNodes[a].items)

\* C2: a single setter with name n and a first unnamed literal overwrites
\* fields[n] when n is a field, creating no props[n], and otherwise writes
\* props[n]; no setter adds a key to fields.
C2_SetFieldOrPropRule ==
    [][(SetterStep /\ IsEntity) =>
         /\ DictKeys(ventity'.fields) = DictKeys(ventity.fields)
         /\ (/\ EntriesOf(vop'.arg) # <<>>
             /\ EntriesOf(vop'.arg)[1].key = <<>>
             /\ EntriesOf(vop'.arg)[1].value.tag = "str")
            => IF DictHas(ventity.fields, vop'.name)
               THEN /\ DictGet(ventity'.fields, vop'.name)
                         = reader_atom_to_value(EntriesOf(vop'.arg)[1].value.s)
                    /\ ventity'.props = ventity.props
               ELSE /\ DictHas(ventity'.props, vop'.name)
                    /\ DictGet(ventity'.props, vop'.name)
                         = reader_atom_to_value(EntriesOf(vop'.arg)[1].value.s)
                    /\ ventity'.fields = ventity.fields]_vars

\* C3: after an instantiation and any setters and batch setters, no name is a
\* key of both fields and props.
C3_FieldsPropsDisjoint ==
    (IsEntity /\ vop.td # 0) =>
        DictKeys(ventity.fields) \cap DictKeys(ventity.props) = {}

C5_SettersKeepReserved ==
    [][(AnySetterStep /\ IsEntity) =>
         /\ ventity'.tag = "VEntity"
         /\ ventity'.reserved = ventity.reserved]_vars

\* a setter wrote the name `__` on an entity that has a reserved `__`
C5_Witness ==
    /\ vop.op \in {"setter", "batch"} /\ IsEntity
    /\ DictHas(ventity.reserved, "__")
    /\ DictHas(ventity.props, "__")
    /\ DictGet(ventity.props, "__") # DictGet(ventity.reserved, "__")

\* C15: a single or batch setter on a value that is no entity leaves the
\* value as it was and returns it; on an entity it returns that entity, of
\* the same schema and type name, with every prop an earlier setter of the
\* chain wrote still there.
C15_SetterOnNonEntityIsNoOp ==
    [][AnySetterStep =>
         IF ~IsEntity
         THEN ventity' = ventity /\ ret' = ventity
         ELSE /\ ret' = ventity'
              /\ ventity'.tag = "VEntity"
              /\ ventity'.typedef = ventity.typedef
              /\ ventity'.type_name = ventity.type_name
              /\ \A k \in DictKeys(ventity.props) : DictHas(ventity'.props, k)]_vars

\* the Text "Joe" after `!age(36)`: returned as it is
C15_Witness ==
    /\ vop.op = "setter" /\ vop.name = "age" /\ ArgNodes[vop.arg] = Arg36
    /\ ventity = VText("Joe")
    /\ ret = VText("Joe")

\* C17: on every entity the flat form `!+(age 36 city Tokyo)` and the keyed
\* form `!+(:age 36 :city Tokyo)` leave the same fields and the same props.
C17_BatchFormsEquivalent ==
    IsEntity
    => /\ apply_batch_setter(ventity, ArgFlatAgeCity).fields
            = apply_batch_setter(ventity, ArgAgeCity).fields
       /\ apply_batch_setter(ventity, ArgFlatAgeCity).props
            = apply_batch_setter(ventity, ArgAgeCity).props

\* the accessors of the pool that int() accepts, with their values
IntegerOf(accessor) ==
    CASE accessor = "1" -> 1
      [] accessor = "2" -> 2
      [] accessor = "3" -> 3
      [] accessor = "7" -> 7
      [] accessor = "0" -> 0
      [] accessor = "-1" -> 0 - 1

IsInteger(accessor) == accessor \in {"1", "2", "3", "7", "0", "-1"}

\* C18: a getter on an entity whose accessor names no field and no prop and
\* is an integer k returns the value of the k-th field (from 1) when there is
\* one and Empty otherwise, whatever the props are; on a List it returns the
\* k-th item when there is one and Empty otherwise, also for an accessor that
\* is no integer.
C18_GetterNumericFallback ==
    vop.op = "getter"
    => /\ (/\ IsEntity
           /\ ~DictHas(ventity.fields, vop.name)
           /\ ~DictHas(ventity.props, vop.name)
           /\ IsInteger(vop.name))
          => ret = IF 1 <= IntegerOf(vop.name) /\ IntegerOf(vop.name) <= Len(ventity.fields)
                   THEN ventity.fields[IntegerOf(vop.name)].v
                   ELSE Empty
       /\ ventity.tag = "VList"
          => ret = IF /\ IsInteger(vop.name)
                      /\ 1 <= IntegerOf(vop.name)
                      /\ IntegerOf(vop.name) <= Len(ventity.items)
                   THEN ventity.items[IntegerOf(vop.name)]
                   ELSE Empty

\* accessor 3 on an entity of two fields and a prop: the prop is not reached
C18_Witness ==
    /\ vop.op = "getter" /\ vop.name = "3" /\ IsEntity
    /\ Len(ventity.fields) = 2
    /\ ventity.props # <<>>
    /\ ret = Empty

-----------------------------------------------------------------------------
(* Claims about Document.merge, STNRepl.reset and schema registration *)

\* the Document of the session
Doc == docs[repl_doc]

\* a step that is the call STNRepl.eval / Document.merge
EvalStep == last'.n = last.n + 1 /\ last'.op = "eval"

\* a step that is the call STNRepl.reset
ResetStep == last'.n = last.n + 1 /\ last'.op = "reset"

\* the statements of the fragment the last call merged
LastStmts == parse_chunks_to_statements(Fragments[last.frag])

\* the names fragment statements stmts define with a first unit of the given leader
Defined(stmts, leader) ==
    {stmts[i].units[1].operand[1] : i \in
        {j \in 1..Len(stmts) : /\ stmts[j].is_define
                               /\ stmts[j].units # <<>>
                               /\ stmts[j].units[1].leader = leader
                               /\ stmts[j].units[1].operand # <<>>}}

\* C6: Document.merge appends: the results before the merge stay, unchanged and
\* in order, as a prefix, followed by the results the fragment's evaluation
\* returned, in order.
C6_MergeAppendsResults ==
    [][EvalStep =>
         /\ Len(Doc'.results) >= Len(Doc.results)
         /\ SubSeq(Doc'.results, 1, Len(Doc.results)) = Doc.results
         /\ SubSeq(Doc'.results, Len(Doc.results) + 1, Len(Doc'.results))
              = _evaluate_into([env |-> Doc.environment, heap |-> heap],
                               Fragments[last'.frag]).results]_vars

\* a merge that appended results behind results of earlier merges
C6_Witness ==
    last.op = "eval" /\ last.nres > 0 /\ Len(Doc.results) > last.nres + 1

\* C7: after a merge, last_result is None when the fragment gave no result and
\* is otherwise the last element the merge appended; a value of an earlier
\* merge is never kept.
C7_LastResultOfLatestMerge ==
    last.op = "eval" =>
        IF Len(Doc.results) = last.nres
        THEN Doc.last_result = None
        ELSE Doc.last_result = Doc.results[Len(Doc.results)]

\* a definitions-only merge after a merge that gave results: last_result is None
C7_Witness ==
    /\ last.op = "eval" /\ last.nres > 0
    /\ Len(Doc.results) = last.nres
    /\ Doc.last_result = None

\* one table of C8: names the fragment does not define stay with their value,
\* names it defines are present afterwards
Accumulates(before, after, defined) ==
    /\ \A k \in DictKeys(before) :
          /\ DictHas(after, k)
          /\ k \notin defined => DictGet(after, k) = DictGet(before, k)
    /\ \A k \in defined : DictHas(after, k)
    /\ DictKeys(after) = DictKeys(before) \cup defined

\* the value a merge gave name k is the one of the fragment's last definition
\* of k: a scalar is the same whatever was merged before, an entity is an
\* object the merge created
GivenByMerge(fresh, after, defined, old_heap) ==
    \A k \in defined :
        IF DictGet(fresh, k).tag = "VEntity"
        THEN /\ DictGet(after, k).tag = "VEntity"
             /\ DictGet(after, k).entity > Len(old_heap)
        ELSE DictGet(fresh, k).tag # "VRef" => DictGet(after, k) = DictGet(fresh, k)

\* the fragment evaluated alone, over a new Environment
Alone(f) == two_passes([env |-> Environment, heap |-> <<>>], Fragments[f]).st.env

\* C8: every merge keeps what earlier merges defined and did not redefine, and
\* maps each name it defines to the value it gave; typedefs, locals and publics
\* (the table of `#name`, Environment.globals_) alike.
C8_MergeAccumulates ==
    [][EvalStep =>
         LET stmts == parse_chunks_to_statements(Fragments[last'.frag])
             old == Doc.environment
             new == Doc'.environment
             fresh == Alone(last'.frag)
         IN  /\ Accumulates(old.typedefs, new.typedefs, Defined(stmts, "TypeCall"))
             /\ Accumulates(old.globals_, new.globals_, Defined(stmts, "GlobalRef"))
             /\ Accumulates(old.locals_, new.locals_, Defined(stmts, "LocalRef"))
             /\ \A k \in Defined(stmts, "TypeCall") :
                   DictGet(new.typedefs, k) = DictGet(fresh.typedefs, k)
             /\ GivenByMerge(fresh.globals_, new.globals_,
                             Defined(stmts, "GlobalRef"), heap)
             /\ GivenByMerge(fresh.locals_, new.locals_,
                             Defined(stmts, "LocalRef"), heap)]_vars

\* a merge redefined a public name while a local of an earlier merge stays
C8_Witness ==
    /\ last.op = "eval" /\ Fragments[last.frag] = FragGlobalP7
    /\ DictHas(Doc.environment.locals_, "v")
    /\ DictHas(Doc.environment.typedefs, "Pt")
    /\ DictGet(Doc.environment.globals_, "P") = atom_to_value("7")
    /\ heap # <<>>

\* C9: reset leaves the session with an empty Document (no typedefs, locals,
\* publics or results, last_result None) and changes no Document that
\* existed before it, nor an entity one of them holds.
C9_ResetEmptiesSession ==
    [][ResetStep =>
         /\ Doc'.environment.typedefs = <<>>
         /\ Doc'.environment.locals_ = <<>>
         /\ Doc'.environment.globals_ = <<>>
         /\ Doc'.results = <<>>
         /\ Doc'.last_result = None
         /\ \A i \in 1..Len(docs) : docs'[i] = docs[i]
         /\ heap' = heap]_vars

\* a reset after merges that defined a schema and a variable and gave a result
C9_Witness ==
    /\ last.op = "reset" /\ repl_doc > 1
    /\ docs[repl_doc - 1].environment.typedefs # <<>>
    /\ docs[repl_doc - 1].environment.globals_ # <<>>
    /\ docs[repl_doc - 1].results # <<>>
    /\ docs[repl_doc - 1].last_result # None
    /\ Doc = Document

\* the units that define schema `name` in stmts, in source order
RECURSIVE SchemaDefs(_, _)
SchemaDefs(stmts, name) ==
    IF stmts = <<>> THEN <<>>
    ELSE (IF /\ Head(stmts).is_define
             /\ Head(stmts).units # <<>>
             /\ Head(stmts).units[1].leader = "TypeCall"
             /\ Head(stmts).units[1].operand = <<name>>
          THEN <<Head(stmts).units[1]>> ELSE <<>>) \o SchemaDefs(Tail(stmts), name)

\* the member list of the schema definition unit, registered alone
MembersOf(unit) == DictGet(_register_typedef(Environment, unit).typedefs,
                           unit.operand[1]).params

\* C10: after an evaluation that registers a schema name more than once, the
\* typedef table has exactly one entry for the name, with the member list of
\* the last registration.
C10_SchemaOverwrite ==
    last.op = "eval" =>
        \A name \in Defined(LastStmts, "TypeCall") :
            LET defs == SchemaDefs(LastStmts, name)
                table == Doc.environment.typedefs
            IN  /\ Cardinality({i \in 1..Len(table) : table[i].k = name}) = 1
                /\ DictGet(table, name).name = name
                /\ DictGet(table, name).params = MembersOf(defs[Len(defs)])

\* the evaluation registered Pt twice with different member lists, over a table
\* that already held Pt
C10_Witness ==
    /\ last.op = "eval" /\ last.n > 1
    /\ Len(SchemaDefs(LastStmts, "Pt")) = 2
    /\ MembersOf(SchemaDefs(LastStmts, "Pt")[1]) # MembersOf(SchemaDefs(LastStmts, "Pt")[2])
    /\ DictGet(Doc.environment.typedefs, "Pt").params = <<"a">>

-----------------------------------------------------------------------------
(* Claims about the reader (units.py) *)

\* the Units of all statements of the Node, in order
AllUnits == Flatten([k \in 1..Len(rstmts) |-> rstmts[k].units])

\* the Units a nested-group node is attached to, in order
Attached == SelectSeq(AllUnits, LAMBDA u : u.child # None)

\* a TypeCall or Setter unit with an operand: it takes a node whenever one is left
MustConsume(u) == u.leader \in {"TypeCall", "Setter"} /\ u.operand # <<>>

\* C19: over all statements in order, the k-th Unit that takes a node has the
\* k-th nested-group node of the Node, so no node is attached twice and the
\* cursor never goes back; a Unit that must take a node and has none was
\* reached after the last node was taken, and no Unit behind it has one.
C19_NodeCursorAdvances ==
    /\ Len(Attached) <= Len(rnode.children)
    /\ \A k \in 1..Len(Attached) : Attached[k].child = rnode.children[k]
    /\ \A i \in 1..Len(AllUnits) :
          (MustConsume(AllUnits[i]) /\ AllUnits[i].child = None)
          => /\ Len(Attached) = Len(rnode.children)
             /\ \A j \in i..Len(AllUnits) : AllUnits[j].child = None

\* two statements took the two nodes in order and a third setter found none
C19_Witness ==
    /\ Len(rstmts) = 3
    /\ Len(rnode.children) = 2
    /\ \A k \in 1..2 : /\ rstmts[k].units # <<>>
                       /\ rstmts[k].units[Len(rstmts[k].units)].child = rnode.children[k]
    /\ \E i \in 1..Len(rstmts[3].units) :
          MustConsume(rstmts[3].units[i]) /\ rstmts[3].units[i].child = None

\* the last atom of a chunk is one of the six sigils
EndsWithSigil(chunk) == chunk[Len(chunk)] \in {"#", "@", ".", "!", ":", "%"}

\* the chunks that start a statement by the rule as the claim states it: a
\* `#` chunk starts one unless the preceding chunk has a sigil as last atom
StartsAsStated(chunks) ==
    {ci \in 1..Len(chunks) :
        \/ ci = 1
        \/ chunks[ci] # <<>> /\ chunks[ci][1] = "@"
        \/ /\ chunks[ci] # <<>> /\ chunks[ci][1] = "#"
           /\ (chunks[ci - 1] = <<>> \/ ~EndsWithSigil(chunks[ci - 1]))}

\* the same rule, with a `#` chunk starting a statement only after a
\* non-empty chunk
StartsAfterNonEmpty(chunks) ==
    {ci \in StartsAsStated(chunks) :
        ci = 1 \/ chunks[ci][1] = "@" \/ chunks[ci - 1] # <<>>}

\* the atoms of the statement that starts at chunk ci: the chunks up to the
\* next start
RuleGroup(chunks, starts, ci) ==
    Flatten(SubSeq(chunks, ci,
                   IF \E s \in starts : s > ci
                   THEN (CHOOSE s \in starts :
                           s > ci /\ \A t \in starts : t > ci => s <= t) - 1
                   ELSE Len(chunks)))

\* the k-th smallest element of a set of numbers
RECURSIVE Kth(_, _)
Kth(S, k) ==
    IF k = 1 THEN CHOOSE s \in S : \A t \in S : s <= t
    ELSE Kth(S \ {CHOOSE s \in S : \A t \in S : s <= t}, k - 1)

\* leader and operand of each Unit of a statement
Shape(stmt) == [i \in 1..Len(stmt.units) |->
                  <<stmt.units[i].leader, stmt.units[i].operand>>]

\* the statements read from the Node are those that start at the given chunks
StatementsStartAt(starts) ==
    /\ Len(rstmts) = Cardinality(starts)
    /\ \A k \in 1..Len(rstmts) :
          Shape(rstmts[k])
            = Shape(_parse_atoms_to_statement(
                      RuleGroup(rnode.chunks, starts, Kth(starts, k)),
                      <<>>, 0).stmt)

-----------------------------------------------------------------------------
(* Claims about evaluate (evaluator.py) *)

\* the definition statements of the pool: schema, public and local variable
Definitions == {StmtTypePt, StmtGlobalP, StmtLocalR, StmtGlobalA}

\* the statement at position i of the source
StmtAt(i) == StmtPool[prog[i]]

\* the positions of the non-definition statements of the source, in order
ExprPositions ==
    SelectSeq([i \in 1..Len(prog) |-> i], LAMBDA i : StmtAt(i) \notin Definitions)

\* the positions before i that hold the statement stmt
Before(stmt, i) == {j \in 1..(i - 1) : StmtAt(j) = stmt}

\* the last position before i that holds the statement stmt, 0 if none
LastBefore(stmt, i) ==
    IF Before(stmt, i) = {} THEN 0
    ELSE CHOOSE j \in Before(stmt, i) : \A t \in Before(stmt, i) : t <= j

\* the schema Pt is defined somewhere in the source
PtDefined == \E i \in 1..Len(prog) : StmtAt(i) = StmtTypePt

Num(n) == VNumber([num |-> n, exp |-> 0])

\* the value the statement at position i is expected to leave in the results:
\* #Q and @w.x read names no statement defines; #P.x reads the entity bound
\* by the last `@#P %Pt(1 2)` before it, after the setters since that binding;
\* a setter on #P returns the entity it was applied to (the n-th entity made
\* is the one of the n-th binding)
Expected(i) ==
    IF StmtAt(i) \in {StmtGetQ, StmtGetWx} THEN Empty
    ELSE IF Before(StmtGlobalP, i) = {} THEN Empty
    ELSE IF StmtAt(i) \in {StmtSetPx, StmtSetPt}
    THEN VEntity(Cardinality(Before(StmtGlobalP, i)))
    ELSE IF \E j \in Before(StmtSetPx, i) : j > LastBefore(StmtGlobalP, i) THEN Num(9)
    ELSE IF PtDefined THEN Num(1)
    ELSE Empty

\* C11: the results of evaluate hold one entry for each non-definition
\* statement of the source, in source order (the k-th entry is the value of
\* the k-th non-definition statement); definitions add no entry.
C11_OneResultPerExpression ==
    /\ Len(evaluated.results) = Len(ExprPositions)
    /\ \A k \in 1..Len(ExprPositions) :
          evaluated.results[k] = Expected(ExprPositions[k])

\* a source of four statements, the definitions between two expressions whose
\* values differ
C11_Witness ==
    /\ Len(prog) = 4
    /\ StmtAt(1) = StmtGetPx /\ StmtAt(2) = StmtTypePt
    /\ StmtAt(3) = StmtGlobalP /\ StmtAt(4) = StmtGetPx
    /\ evaluated.results = <<Empty, Num(1)>>

\* the names of the fields of an Entity object, in order
FieldNames(entity) == [i \in 1..Len(entity.fields) |-> entity.fields[i].k]

\* C12: every entity made by a `@#P %Pt(1 2)` statement has the member names of
\* the schema Pt when the source defines Pt anywhere, before or after that
\* statement; only a source without the schema gives `_0`, `_1`.
C12_SchemaBeforeEvaluation ==
    \A j \in 1..Len(prog) :
        StmtAt(j) = StmtGlobalP
        => FieldNames(evaluated.st.heap[Cardinality(Before(StmtGlobalP, j + 1))])
             = IF PtDefined THEN <<"x", "y">> ELSE <<"_0", "_1">>

\* the instantiation precedes the only definition of its schema
C12_Witness ==
    /\ \E j \in 1..Len(prog) :
          /\ StmtAt(j) = StmtGlobalP
          /\ Before(StmtTypePt, j) = {}
          /\ \E i \in (j + 1)..Len(prog) : StmtAt(i) = StmtTypePt
    /\ Len(evaluated.st.heap) = 1
    /\ FieldNames(evaluated.st.heap[1]) = <<"x", "y">>

\* the entry of the results that belongs to the expression at position i
ResultAt(i) ==
    evaluated.results[Cardinality({j \in 1..i : StmtAt(j) \notin Definitions})]

\* C13: `#Q` (a public name no statement defines), `@w.x` (a getter on a
\* local name no statement defines) and `#P.x` before any definition of P
\* each leave an Empty entry in the results.
C13_EmptyPropagation ==
    \A i \in 1..Len(prog) :
        (\/ StmtAt(i) \in {StmtGetQ, StmtGetWx}
         \/ StmtAt(i) = StmtGetPx /\ Before(StmtGlobalP, i) = {})
        => /\ Cardinality({j \in 1..i : StmtAt(j) \notin Definitions})
                <= Len(evaluated.results)
           /\ ResultAt(i) = Empty

\* all three references to absent names in one source, after another result
C13_Witness ==
    /\ prog = <<3, 5, 6>>
    /\ evaluated.results = <<Empty, Empty, Empty>>
    /\ evaluated.st.env.globals_ = <<>>
    /\ evaluated.st.env.locals_ = <<>>

\* the value a `(#A)` argument at position i stands for: the value of A when
\* an earlier statement defined it, else the placeholder
ArgumentA(i) == IF Before(StmtGlobalA, i) = {} THEN VRef("A") ELSE Num(7)

XOf(entity) ==
    IF DictHas(entity.fields, "x") THEN DictGet(entity.fields, "x")
    ELSE IF DictHas(entity.props, "x") THEN DictGet(entity.props, "x")
    ELSE Empty

\* C16: for every `#P!x(9)` at a position j after a binding of P: the entity
\* the table holds for P has x = 9 while P is not bound again; every `#P.x`
\* behind j and before another binding reads 9; every `#P.x` between the
\* binding and the first setter read the value the binding gave.
C16_SetterMutatesInPlace ==
    \A j \in 1..Len(prog) :
        (StmtAt(j) = StmtSetPx /\ Before(StmtGlobalP, j) # {})
        => /\ LastBefore(StmtGlobalP, Len(prog) + 1) < j
              => /\ DictGet(evaluated.st.env.globals_, "P") = ResultAt(j)
                 /\ XOf(evaluated.st.heap[ResultAt(j).entity]) = Num(9)
           /\ \A k \in (j + 1)..Len(prog) :
                 (StmtAt(k) = StmtGetPx /\ LastBefore(StmtGlobalP, k) < j)
                 => ResultAt(k) = Num(9)
           /\ \A i \in 1..(j - 1) :
                 (/\ StmtAt(i) = StmtGetPx
                  /\ LastBefore(StmtGlobalP, i) = LastBefore(StmtGlobalP, j)
                  /\ LastBefore(StmtSetPx, i) < LastBefore(StmtGlobalP, i))
                 => ResultAt(i) = IF PtDefined THEN Num(1) ELSE Empty

\* `@#P %Pt(1 2) ; #P.x ; #P!x(9) ; #P.x`: the read before the setter saw no x,
\* the read after it sees 9, and the one entity of the heap holds it
C16_Witness ==
    /\ prog = <<2, 3, 4, 3>>
    /\ evaluated.results = <<Empty, VEntity(1), Num(9)>>
    /\ DictGet(evaluated.st.heap[1].props, "x") = Num(9)

\* the statements of the pool made of references and getters only:
\* `#P.x`, `#Q` and `@w.x`
ReadOnly == {StmtGetPx, StmtGetQ, StmtGetWx}

\* C30: appending `#P.x`, `#Q` or `@w.x` to a source leaves the typedefs, the
\* public and the local table and every stored entity as they were, and
\* adds one entry to the results.
C30_ReadsLeaveEnvironment ==
    [][(Len(prog') = Len(prog) + 1 /\ StmtPool[prog'[Len(prog')]] \in ReadOnly)
       => /\ evaluated'.st.env = evaluated.st.env
          /\ evaluated'.st.heap = evaluated.st.heap
          /\ Len(evaluated'.results) = Len(evaluated.results) + 1]_vars

\* the source ends with `#P.x`, P being an entity of two fields and one prop
C30_Witness ==
    /\ Len(prog) > 0
    /\ StmtAt(Len(prog)) = StmtGetPx
    /\ Len(evaluated.results) > 0
    /\ evaluated.results[Len(evaluated.results)] = Num(1)
    /\ DictHas(evaluated.st.env.globals_, "P")
    /\ DictGet(evaluated.st.env.globals_, "P").tag = "VEntity"
    /\ evaluated.st.heap[DictGet(evaluated.st.env.globals_, "P").entity].props # <<>>

-----------------------------------------------------------------------------
(* Claims about variable definitions and scopes (units.py, evaluator.py) *)

\* the statement at position i of a source of SpecScopes
ScopeAt(i) == ScopePool[prog[i]]

\* the source has no bare `@v`: every statement that takes a node brought one,
\* so each unit that can take a node takes the node written behind it
NoBareV == \A i \in 1..Len(prog) : ScopeAt(i) # ScBareV

\* C21: when the source ends with `@v %Pt(1 2)` and the TypeCall took its
\* node, the local table holds an entity under v and the results hold
\* entries only for the reference statements `#v` and `#g.q`.
C21_LocalDefWithTypeCall ==
    (Len(prog) > 0 /\ ScopeAt(Len(prog)) = ScLocalEntity /\ NoBareV)
    => /\ DictHas(evaluated.st.env.locals_, "v")
       /\ DictGet(evaluated.st.env.locals_, "v").tag = "VEntity"
       /\ Len(evaluated.results)
            = Cardinality({i \in 1..Len(prog) : ScopeAt(i) \in {ScGetGlobalV, ScGetGq}})

\* the step appends the statement s to the source
Appended(s) == Len(prog') = Len(prog) + 1 /\ ScopePool[prog'[Len(prog')]] = s

\* the step leaves out bare `@v` statements, before and after it
NoBareVStep == \A i \in 1..Len(prog') : ScopePool[prog'[i]] # ScBareV

\* no statement before the last one is of the kind s
NoneBeforeLast(s) == \A i \in 1..(Len(prog) - 1) : ScopeAt(i) # s

\* the source ends with the statement s
EndsWith(s) == Len(prog) > 0 /\ ScopeAt(Len(prog)) = s

LastResult == evaluated.results[Len(evaluated.results)]

-----------------------------------------------------------------------------
(* Claims about Environment.create_entity and create_entity_keyed *)

\* what the raw strings of the pool become under atom_to_value
AsAtom(raw) ==
    CASE raw = "10" -> Num(10)
      [] raw = "a" -> VText("a")
      [] raw = "[5]" -> VText("5")

\* what the raw strings of the pool become as the Number member x and as the
\* Date member y of Pt
AsMember(raw, name) ==
    IF name = "x"
    THEN (CASE raw = "10" -> Num(10)
            [] raw = "a" -> VText("a")
            [] raw = "[5]" -> VText("[5]"))
    ELSE (CASE raw = "10" -> VDate("10")
            [] raw = "a" -> VDate("a")
            [] raw = "[5]" -> VDate("5"))

\* C22: create_entity with the schema Pt gives the fields x, y in that order,
\* the i-th from the i-th argument and Empty for a member beyond the
\* arguments; with no schema the arguments get the names _0, _1, ... in order.
C22_PositionalInstantiation ==
    centity.op = "positional"
    => IF centity.type_name = "Pt"
       THEN /\ FieldNames(centity.entity) = <<"x", "y">>
            /\ \A i \in 1..2 :
                  centity.entity.fields[i].v
                    = IF i <= Len(centity.args)
                      THEN AsMember(centity.args[i], centity.entity.fields[i].k)
                      ELSE Empty
       ELSE centity.entity.fields
              = [i \in 1..Len(centity.args) |->
                   [k |-> "_" \o ToString(i - 1), v |-> AsAtom(centity.args[i])]]

\* Pt with one argument: x is bound, y is Empty
C22_Witness ==
    /\ centity.op = "positional" /\ centity.type_name = "Pt"
    /\ centity.args = <<"10">>
    /\ centity.entity.fields = <<[k |-> "x", v |-> Num(10)], [k |-> "y", v |-> Empty]>>

\* C23: create_entity_keyed with the schema Pt keeps every key of the keyword
\* arguments in the entity: a member with its value coerced by the member's
\* kind, a key that is no member with its value coerced by atom_to_value.
C23_KeyedKeepsUnknownKeys ==
    (centity.op = "keyed" /\ centity.type_name = "Pt")
    => \A i \in 1..Len(centity.kwargs) :
          /\ DictHas(centity.entity.fields, centity.kwargs[i].k)
          /\ DictGet(centity.entity.fields, centity.kwargs[i].k)
               = IF centity.kwargs[i].k \in {"x", "y"}
                 THEN AsMember(centity.kwargs[i].v, centity.kwargs[i].k)
                 ELSE AsAtom(centity.kwargs[i].v)

-----------------------------------------------------------------------------
(* Claims about atom_to_value and normalize_implicit_dict *)

\* the pieces spell -?\d+(\.\d+)? : an optional sign, digits, and at most one
\* point with digits on both sides
NumericParts(p) ==
    LET q == IF p # <<>> /\ p[1] = "-" THEN Tail(p) ELSE p
    IN  /\ q # <<>>
        /\ \A i \in 1..Len(q) : q[i] \in {"4", "."}
        /\ q[1] = "4" /\ q[Len(q)] = "4"
        /\ Cardinality({i \in 1..Len(q) : q[i] = "."}) <= 1

\* the pieces spell a literal: an opening bracket first, a closing bracket
\* that is not escaped last
LiteralParts(p) == Len(p) >= 2 /\ p[1] = "[" /\ p[Len(p)] = "]"

\* the inner text of a literal with every `\]` replaced by `]`
Unescaped(p) ==
    Concat([i \in 1..(Len(p) - 2) |-> IF p[i + 1] = "\\]" THEN "]" ELSE p[i + 1]])

\* the value the claim gives the string of the pieces p; strings that start
\* with `[` and end with an escaped bracket are left open
ClassOf(p) ==
    IF NumericParts(p)
    THEN [tag |-> "VNumber"]
    ELSE IF LiteralParts(p)
    THEN IF SubSeq(p, 2, Len(p) - 1) = <<"2024-01-15">>
         THEN VDate("2024-01-15") ELSE VText(Unescaped(p))
    ELSE VText(Concat(p))

Classified(p, v) ==
    IF NumericParts(p) THEN v.tag = "VNumber" ELSE v = ClassOf(p)

\* C24: a string of the numeric pattern becomes a Number; a literal `[...]`
\* becomes the Date of its inner text when that is YYYY-MM-DD and else the
\* Text of its inner text with `\]` unescaped; every other string becomes
\* the Text of itself. This for both atom_to_value functions.
C24_AtomClassification ==
    (atomv.parts # <<>> /\ ~(atomv.parts[1] = "[" /\ atomv.parts[Len(atomv.parts)] = "\\]"))
    => /\ Classified(atomv.parts, atomv.value)
       /\ Classified(atomv.parts, atomv.reader_value)

\* every `:` of the list is followed by an atom that is no key marker
WellFormed(a) ==
    \A i \in 1..Len(a) : a[i] = ":" => (i < Len(a) /\ a[i + 1] \notin {":", ":x"})

\* the positions of the key markers of a well-formed list
KeyStarts(a) == {i \in 1..Len(a) : a[i] \in {":", ":x"}}

\* the key a marker names, and the positions of its value atoms: those behind
\* the marker (and the name) up to the next marker or the end
KeyAt(a, i) == IF a[i] = ":x" THEN "x" ELSE a[i + 1]

ValuesAt(a, i) ==
    {j \in 1..Len(a) : /\ j > (IF a[i] = ":x" THEN i ELSE i + 1)
                       /\ \A m \in KeyStarts(a) : m > i => j < m}

\* the value of a plain atom of the pool
PlainValue(atom) == IF atom = "y" THEN VText("y") ELSE IF atom = "1" THEN Num(1) ELSE Num(2)

\* the value of an entry whose value atoms are at the positions js
EntryValue(a, js) ==
    IF js = {} THEN VText("")
    ELSE IF Cardinality(js) = 1 THEN PlainValue(a[CHOOSE j \in js : TRUE])
    ELSE VList([k \in 1..Cardinality(js) |-> PlainValue(a[Kth(js, k)])])

\* C29: in the dict of a well-formed atom list, the entry of each key (of its
\* last marker, when it occurs twice) is built from the atoms between that
\* marker and the next one or the end, and from nothing else; atoms before
\* the first marker are in no entry.
C29_ValuesBetweenMarkers ==
    WellFormed(ndict.atoms)
    => /\ DictKeys(ndict.dict.entries)
            = {KeyAt(ndict.atoms, i) : i \in KeyStarts(ndict.atoms)}
       /\ \A i \in KeyStarts(ndict.atoms) :
             (\A m \in KeyStarts(ndict.atoms) :
                 m > i => KeyAt(ndict.atoms, m) # KeyAt(ndict.atoms, i))
             => DictGet(ndict.dict.entries, KeyAt(ndict.atoms, i))
                  = EntryValue(ndict.atoms, ValuesAt(ndict.atoms, i))

-----------------------------------------------------------------------------
(* Claims about schema member lists (reader.py, evaluator.py) *)

\* the pieces `:name`, `:age`, `:__` of the pool, and the names they write
KeyPieces == {1, 2, 3}

PieceName(c) == IF c = 1 THEN "name" ELSE IF c = 2 THEN "age" ELSE "__"

\* the names written in the definition node, in the order written
WrittenNames ==
    [k \in 1..Len(SelectSeq(mdef.pieces, LAMBDA c : c \in KeyPieces)) |->
        PieceName(SelectSeq(mdef.pieces, LAMBDA c : c \in KeyPieces)[k])]

NamesOf(members) == [k \in 1..Len(members) |-> members[k].name]

NoDuplicates(names) ==
    \A i, j \in 1..Len(names) : names[i] = names[j] => i = j

\* C26: no two members of a registered schema have the same name, neither
\* in the params of the TypeDef that evaluator.py registers nor in the
\* member list built from parse_member_defs.
C26_MemberNamesUnique ==
    /\ NoDuplicates(mdef.typedef.params)
    /\ NoDuplicates(NamesOf(mdef.schema))

\* the pieces that are a `%` annotation, the shorthand glued to the `%`
\* ("" for a bare `%`), and whether a `*` leads it
PercentPieces == {4, 7, 8, 9} \cup (10..Len(MemberPieces))

PieceShorthand(c) ==
    IF c = 4 THEN "" ELSE IF c = 7 THEN "e" ELSE IF c = 8 THEN "d"
    ELSE IF c = 9 THEN "Task" ELSE Shorthands[c - 9]

PieceStarred(c) == c \in {8, 9}

\* the kind the grammar gives to a shorthand, as the specification lists it
StatedKind(shorthand) ==
    IF shorthand \in {"", "i", "n", "num", "number"} THEN "number"
    ELSE IF shorthand = "f" THEN "float"
    ELSE IF shorthand = "d" THEN "date"
    ELSE IF shorthand \in {"dt", "datetime"} THEN "datetime"
    ELSE IF shorthand = "b" THEN "bool"
    ELSE IF shorthand = "e" THEN "enum"
    ELSE shorthand

\* the same list with `int` among the shorthands of number
KindWithInt(shorthand) == IF shorthand = "int" THEN "number" ELSE StatedKind(shorthand)

\* the member written by the key piece at position k of the pieces
MemberAt(k) == mdef.members[Cardinality({j \in 1..k : mdef.pieces[j] \in KeyPieces})]

\* every member with no annotation is a text of multiplicity false, and
\* every member whose annotation starts with a `%` piece has the kind
\* Kind gives to its shorthand, and multiplicity true exactly when a `*`
\* leads the `%`
Grammar(Kind(_)) ==
    \A k \in 1..Len(mdef.pieces) :
        mdef.pieces[k] \in KeyPieces
        => /\ (k = Len(mdef.pieces) \/ mdef.pieces[k + 1] \in KeyPieces)
              => (MemberAt(k).kind = "text" /\ ~MemberAt(k).multi)
           /\ (k < Len(mdef.pieces) /\ mdef.pieces[k + 1] \in PercentPieces)
              => /\ MemberAt(k).kind = Kind(PieceShorthand(mdef.pieces[k + 1]))
                 /\ MemberAt(k).multi = PieceStarred(mdef.pieces[k + 1])

\* C27 as stated: no annotation gives text; bare `%` and `%` glued to i, n,
\* num or number give number, f float, d date, dt or datetime datetime,
\* b bool, e enum; any other shorthand gives that literal string; a leading
\* `*` sets multiplicity true and leaves the kind as it is without the `*`.
C27_AsStated == Grammar(StatedKind)

\* C27: the same grammar with `int` as one more shorthand of number.
C27_KindGrammar == Grammar(KindWithInt)

\* `:name *%Task :age` was written
C27_Witness ==
    /\ mdef.pieces = <<1, 9, 2>>
    /\ mdef.members =
         <<[name |-> "name", kind |-> "Task", choices |-> <<>>, multi |-> TRUE],
           [name |-> "age", kind |-> "text", choices |-> <<>>, multi |-> FALSE]>>

====
